---- MODULE Spec2Model ----
(***************************************************************************)
(* Markup-to-document pipeline of the business transformation agent:       *)
(* ReportXMLParser (report_generator.py), the ReportLab renderer and its   *)
(* upload, PPTXMLParser / PPTPresentationGenerator (ppt_generator.py) and  *)
(* FirstDeckTemplate / MultiTemplatePPTGenerator                           *)
(* (multi_template_ppt_generator.py).                                      *)
(*                                                                         *)
(* Text is modelled as a sequence of tokens.  A tag is one token, a run of *)
(* non-blank characters without '<' is one "text" token and a run of       *)
(* blanks is one "ws" token, so a regular expression over the characters   *)
(* is a search over the tokens.  Tags are written in lower case.           *)
(***************************************************************************)
EXTENDS Integers, Sequences, FiniteSets, TLC

VARIABLES
    pc,          \* position of the request being processed
    kind,        \* "scan" | "pdf" | "pptx" | "deck": which entry point runs
    raw,         \* the markup text handed to the parser (token sequence)
    parsed,      \* result of ReportXMLParser.parse_xml_tags
    all_sections,\* history: the matched blocks sorted by start_pos (a local of the parser)
    story,       \* flowables appended by the ReportLab renderer
    structure,   \* parsed slide model (PPTXMLParser result or template JSON)
    ppt,         \* slides added to the Presentation object
    tmp_file,    \* state of the artifact file in the session temp directory
    s3,          \* objects stored by s3_client.upload_file
    render,      \* history: "pending" | "ok" | "failed", how building and saving ended
    result,      \* value returned by the generator
    payload,     \* the request: entry point, output_format, presentation_style
    opc,         \* position of the request in its entry point
    presentation_style,\* the template identifier in force after validation
    report_url,  \* _handle_start: URL returned by the report generator
    presentation_url,\* _handle_start: URL returned by the presentation generator
    response,    \* what the entry point returns to its caller
    renders,     \* how many times the generator object was asked to render its input
    first,       \* history: what the first render of the input produced
    generator_of,\* which PPTPresentationGenerator object each concurrent request calls
    current_colors,\* self.current_colors / self.current_fonts of each generator object
    threads,     \* each concurrent request: position, style, slides still to create, slides created
    files,       \* the presentation file in the temp directory of each session
    start_request,\* the body of a start request: company_name, output_format, prompt, files
    spc,         \* position of the start request in process_request and _handle_start
    todo,        \* the checkpoints the running step still reports, in program order
    status_log,  \* history: every call of update_status of the request, stored or not
    status_item, \* current_status of the item of the session in the status table
    outcome,     \* how each step of the request ended
    raised,      \* an exception is on its way to the enclosing handler
    returned,    \* what process_request returned
    store_up,    \* the status table accepts writes
    polled       \* history: the answers of the status polls

vars ==
    <<pc, kind, raw, parsed, all_sections, story, structure, ppt, tmp_file, s3, render, result,
      payload, opc, presentation_style, report_url, presentation_url, response,
      renders, first,
      generator_of, current_colors, threads, files,
      start_request, spc, todo, status_log, status_item, outcome, raised, returned, polled, store_up>>

\* the variables of this group, left alone by the other operations
status_vars ==
    <<start_request, spc, todo, status_log, status_item, store_up, outcome, raised, returned, polled>>

NoOutcome == [files |-> "pending", research |-> "pending", profile |-> "pending",
              use_cases |-> "pending", report |-> "pending", presentation |-> "pending"]
NoReturn == [status |-> "none", report_url |-> "None", presentation_url |-> "None"]

NoPoll == [current_status |-> "none", polling_recommended |-> TRUE, updates |-> 0]

\* no start request with status tracking
NoStatus ==
    /\ start_request = [company_name |-> <<>>, output_format |-> "none",
                        prompt |-> FALSE, files |-> FALSE, web_scraping |-> FALSE]
    /\ spc = "idle"
    /\ todo = <<>>
    /\ status_log = <<>>
    /\ status_item = "not_found"
    /\ store_up = TRUE
    /\ outcome = NoOutcome
    /\ raised = FALSE
    /\ returned = NoReturn
    /\ polled = NoPoll


\* the variables of this group, left alone by the other operations
thread_vars == <<generator_of, current_colors, threads, files>>

\* no concurrent requests
NoThreads ==
    /\ generator_of = <<>>
    /\ current_colors = <<>>
    /\ threads = <<>>
    /\ files = <<>>

\* the variables of this group, left alone by the other operations
rerender_vars == <<renders, first>>

\* the generator object has rendered nothing yet
NoOutput == [built |-> FALSE, parsed |-> <<>>, story |-> <<>>, structure |-> <<>>, ppt |-> <<>>]
FirstRender ==
    /\ renders = 1
    /\ first = NoOutput

\* the variables of this group, left alone by the other operations
request_vars == <<payload, opc, presentation_style, report_url, presentation_url, response>>

\* no request: the parser and the generators are run on their own
NoPayload == [entry |-> "none", output_format |-> "none", presentation_style |-> "none"]
NoResponse == [status |-> "none", presentation_style |-> "none", message |-> <<>>,
               report_url |-> "absent", presentation_url |-> "absent"]
NoOrchestrator ==
    /\ payload = NoPayload
    /\ opc = "idle"
    /\ report_url = "None"
    /\ presentation_url = "None"
    /\ response = NoResponse
NoRequest == NoOrchestrator /\ presentation_style = "none"

(***************************************************************************)
(* Tokens                                                                  *)
(***************************************************************************)
Tok(k, v) == [k |-> k, v |-> v, a |-> "", n |-> <<>>, u |-> <<>>]
Open(t) == Tok("open", t)
Close(t) == Tok("close", t)
Word(w) == Tok("text", w)
Ws == Tok("ws", " ")
\* <slide type="a"> and <visual_element type="a">
OpenAttr(t, a) == [k |-> "open", v |-> t, a |-> a, n |-> <<>>, u |-> <<>>]

\* str(citation_counter): the decimal digits of n
RECURSIVE Str(_)
Str(n) == IF n < 10 THEN <<n>> ELSE Str(n \div 10) \o <<n % 10>>

\* the number a digit string denotes (the \d+ group read back as a number)
RECURSIVE Num(_)
Num(d) == IF Len(d) = 0 THEN 0 ELSE 10 * Num(SubSeq(d, 1, Len(d) - 1)) + d[Len(d)]

\* f'<link href="{citation_url}"><u>[{citation_counter}]</u></link>': the
\* marker holds the digits of the counter and the URL it links to
Link(url, counter) == [k |-> "link", v |-> "u", a |-> "", n |-> Str(counter), u |-> url]

\* first index >= i of token t in s, 0 when there is none
RECURSIVE IndexFrom(_, _, _)
IndexFrom(s, t, i) ==
    IF i > Len(s) THEN 0
    ELSE IF s[i] = t THEN i
    ELSE IndexFrom(s, t, i + 1)

\* str.strip(): blanks removed at both ends
RECURSIVE LStrip(_)
LStrip(s) == IF Len(s) > 0 /\ s[1].k = "ws" THEN LStrip(Tail(s)) ELSE s

RECURSIVE RStrip(_)
RStrip(s) ==
    IF Len(s) > 0 /\ s[Len(s)].k = "ws" THEN RStrip(SubSeq(s, 1, Len(s) - 1)) ELSE s

Strip(s) == RStrip(LStrip(s))

\* s starts with p at index i
StartsAt(s, p, i) ==
    /\ i + Len(p) - 1 <= Len(s)
    /\ \A j \in 1..Len(p) : s[i + j - 1] = p[j]

\* str.replace(old, new): every non-overlapping occurrence, left to right
RECURSIVE ReplaceFrom(_, _, _, _)
ReplaceFrom(s, old, new, i) ==
    IF i > Len(s) THEN <<>>
    ELSE IF Len(old) > 0 /\ StartsAt(s, old, i)
         THEN new \o ReplaceFrom(s, old, new, i + Len(old))
         ELSE <<s[i]>> \o ReplaceFrom(s, old, new, i + 1)

Replace(s, old, new) == ReplaceFrom(s, old, new, 1)

(***************************************************************************)
(* ReportXMLParser                                                         *)
(***************************************************************************)
\* a matcher that closes an unterminated block at the end of the text
RECURSIVE FindBlocksLenient(_, _, _)
FindBlocksLenient(s, tag, from) ==
    LET i == IndexFrom(s, Open(tag), from)
        j == IF i = 0 THEN 0 ELSE IndexFrom(s, Close(tag), i + 1)
    IN  IF i = 0 THEN <<>>
        ELSE IF j = 0
             THEN <<[type |-> tag, content |-> SubSeq(s, i + 1, Len(s)), start_pos |-> i]>>
             ELSE <<[type |-> tag, content |-> SubSeq(s, i + 1, j - 1), start_pos |-> i]>>
                  \o FindBlocksLenient(s, tag, j + 1)

\* re.finditer(r'<tag>(.*?)</tag>', s, DOTALL): leftmost open tag that has a
\* close tag after it, shortest body, then on from the end of the match
RECURSIVE FindBlocks(_, _, _)
FindBlocks(s, tag, from) ==
    LET i == IndexFrom(s, Open(tag), from)
        j == IF i = 0 THEN 0 ELSE IndexFrom(s, Close(tag), i + 1)
    IN  IF i = 0 \/ j = 0 THEN <<>>
        ELSE <<[type |-> tag, content |-> SubSeq(s, i + 1, j - 1), start_pos |-> i]>>
             \o FindBlocks(s, tag, j + 1)

section_patterns ==
    <<"content", "sub-heading-bold", "sub-heading", "section", "paragraph", "list", "table">>

\* the loop over section_patterns: matches appended pattern by pattern
RECURSIVE CollectSections(_, _)
CollectSections(s, p) ==
    IF p > Len(section_patterns) THEN <<>>
    ELSE FindBlocks(s, section_patterns[p], 1) \o CollectSections(s, p + 1)

\* list.sort(key=start_pos): stable insertion into the sorted prefix
RECURSIVE InsertByPos(_, _)
InsertByPos(sorted, x) ==
    IF Len(sorted) = 0 THEN <<x>>
    ELSE IF sorted[Len(sorted)].start_pos <= x.start_pos THEN Append(sorted, x)
    ELSE Append(InsertByPos(SubSeq(sorted, 1, Len(sorted) - 1), x), sorted[Len(sorted)])

RECURSIVE SortByPos(_)
SortByPos(l) ==
    IF Len(l) = 0 THEN <<>>
    ELSE InsertByPos(SortByPos(SubSeq(l, 1, Len(l) - 1)), l[Len(l)])

CNO == Open("citation_name")
CNC == Close("citation_name")
CUO == Open("citation_url")
CUC == Close("citation_url")

\* shortest name: the first </citation_name> at or after j that is directly
\* followed by <citation_url> and has a </citation_url> after it
RECURSIVE NameClose(_, _)
NameClose(s, j) ==
    IF j >= Len(s) THEN 0
    ELSE IF s[j] = CNC /\ s[j + 1] = CUO /\ IndexFrom(s, CUC, j + 2) # 0 THEN j
    ELSE NameClose(s, j + 1)

\* re.finditer(citation_pattern, content, DOTALL)
RECURSIVE FindCitations(_, _)
FindCitations(s, from) ==
    LET i == IndexFrom(s, CNO, from)
        j == IF i = 0 THEN 0 ELSE NameClose(s, i + 1)
        k == IF j = 0 THEN 0 ELSE IndexFrom(s, CUC, j + 2)
    IN  IF j = 0 THEN <<>>
        ELSE <<[name |-> SubSeq(s, i + 1, j - 1), url |-> SubSeq(s, j + 2, k - 1), pos |-> i]>>
             \o FindCitations(s, k + 1)

\* number of characters of a token sequence
RECURSIVE CharLen(_)
CharLen(s) ==
    IF Len(s) = 0 THEN 0
    ELSE CharLen(Tail(s)) +
         (CASE s[1].k = "open" -> Len(s[1].v) + 2
            [] s[1].k = "close" -> Len(s[1].v) + 3
            [] OTHER -> Len(s[1].v))

TitleLimit == 50

\* citation_name[:50]: the longest prefix of whole tokens within the limit
RECURSIVE Prefix(_, _)
Prefix(s, limit) ==
    IF Len(s) = 0 \/ CharLen(<<s[1]>>) > limit THEN <<>>
    ELSE <<s[1]>> \o Prefix(Tail(s), limit - CharLen(<<s[1]>>))

clean_title(citation_name) ==
    IF CharLen(citation_name) > TitleLimit
    THEN Prefix(citation_name, TitleLimit) \o <<Word("...")>>
    ELSE citation_name

citation_info(counter, name, url) ==
    [number |-> counter, name |-> clean_title(name), url |-> url, full_name |-> name]

\* "if not citation_name or not citation_url: continue"
SkipCitation(name, url) == Len(name) = 0 \/ Len(url) = 0

\* a skipped pair that still consumes a number
OnSkipAdvance(acc) == [acc EXCEPT !.counter = @ + 1]

\* "continue": a skipped pair leaves the accumulated state as it is
OnSkip(acc) == acc

\* a counter that is never advanced
NextCounterStuck(citation_counter) == citation_counter

\* "citation_counter += 1"
NextCounter(citation_counter) == citation_counter + 1

\* the tag text rebuilt from the stripped name and URL
citation_tag(name, url) == <<CNO>> \o name \o <<CNC, CUO>> \o url \o <<CUC>>

\* dict[key] = value: the entry is replaced in place, or appended
DictSet(d, key, value) ==
    IF \E i \in 1..Len(d) : d[i].key = key
    THEN [i \in 1..Len(d) |-> IF d[i].key = key THEN [key |-> key, value |-> value] ELSE d[i]]
    ELSE Append(d, [key |-> key, value |-> value])

\* the loop of _process_inline_citations over the matches; acc carries
\* processed_content, citations_dict, inline_citations, citation_counter and
\* the offsets of the registered matches
RECURSIVE RegisterCitations(_, _, _)
RegisterCitations(matches, m, acc) ==
    IF m > Len(matches) THEN acc
    ELSE LET name == Strip(matches[m].name)
             url == Strip(matches[m].url)
             info == citation_info(acc.counter, name, url)
         IN  IF SkipCitation(name, url) THEN RegisterCitations(matches, m + 1, OnSkip(acc))
             ELSE RegisterCitations(matches, m + 1,
                    [content |-> Replace(acc.content, citation_tag(name, url),
                                         <<Link(url, acc.counter)>>),
                     citations |-> DictSet(acc.citations, Str(acc.counter), info),
                     inline |-> Append(acc.inline, info),
                     counter |-> NextCounter(acc.counter),
                     at |-> Append(acc.at, matches[m].pos)])

ProcessInlineCitations(content, citations_dict, inline_citations, citation_counter) ==
    RegisterCitations(FindCitations(content, 1), 1,
        [content |-> content, citations |-> citations_dict, inline |-> inline_citations,
         counter |-> citation_counter, at |-> <<>>])

\* the character U+2022 that marks a bullet item
BulletChar == Word("&bull;")

\* re.sub(r'<tag>(.*?)</tag>', pre \1 post, content)
RECURSIVE SubTag(_, _, _, _, _)
SubTag(s, tag, pre, post, from) ==
    LET i == IndexFrom(s, Open(tag), from)
        j == IF i = 0 THEN 0 ELSE IndexFrom(s, Close(tag), i + 1)
    IN  IF i = 0 \/ j = 0 THEN SubSeq(s, from, Len(s))
        ELSE SubSeq(s, from, i - 1) \o pre \o SubSeq(s, i + 1, j - 1) \o post
             \o SubTag(s, tag, pre, post, j + 1)

ProcessFormattingTags(content) ==
    LET c1 == SubTag(content, "bold", <<Open("b")>>, <<Close("b")>>, 1)
        c2 == SubTag(c1, "italic", <<Open("i")>>, <<Close("i")>>, 1)
        c3 == SubTag(c2, "underline", <<Open("u")>>, <<Close("u")>>, 1)
        c4 == SubTag(c3, "bullet", <<BulletChar, Ws>>, <<>>, 1)
        c5 == SubTag(c4, "number", <<Word("1."), Ws>>, <<>>, 1)
    IN  SubTag(c5, "list", <<>>, <<>>, 1)

\* the loop of parse_xml_tags over the sorted sections
RECURSIVE ProcessSections(_, _, _)
ProcessSections(secs, i, acc) ==
    IF i > Len(secs) THEN acc
    ELSE LET r == ProcessInlineCitations(secs[i].content, acc.citations,
                                         acc.inline_citations, acc.counter)
         IN  ProcessSections(secs, i + 1,
                [sections |-> Append(acc.sections,
                     [type |-> secs[i].type,
                      content |-> ProcessFormattingTags(r.content)]),
                 citations |-> r.citations,
                 inline_citations |-> r.inline,
                 counter |-> r.counter,
                 log |-> acc.log \o [m \in 1..Len(r.at) |->
                            [sec |-> i, at |-> secs[i].start_pos + r.at[m]]]])

\* re.search(r'<heading_bold>(.*?)</heading_bold>'): the first match, stripped
TitleOf(xml_content) ==
    LET m == FindBlocks(xml_content, "heading_bold", 1)
    IN  IF Len(m) = 0 THEN <<>> ELSE Strip(m[1].content)

\* all_sections after the sort by start_pos
SortedSections(xml_content) == SortByPos(CollectSections(xml_content, 1))

parse_xml_tags(xml_content) ==
    LET r == ProcessSections(SortedSections(xml_content), 1,
                [sections |-> <<>>, citations |-> <<>>, inline_citations |-> <<>>,
                 counter |-> 1, log |-> <<>>])
    IN  [title |-> TitleOf(xml_content), sections |-> r.sections,
         citations |-> r.citations, inline_citations |-> r.inline_citations,
         log |-> r.log]

(***************************************************************************)
(* ConsolidatedReportGenerator: the ReportLab story                        *)
(***************************************************************************)
Paragraph(text, style) == [f |-> "Paragraph", text |-> text, style |-> style]
Spacer == [f |-> "Spacer", text |-> <<>>, style |-> ""]
HRFlowable == [f |-> "HRFlowable", text |-> <<>>, style |-> ""]

\* re.sub(r'</?content>', '', ...) and the same for paragraph and section
RECURSIVE DropContainerTags(_)
DropContainerTags(s) ==
    IF Len(s) = 0 THEN <<>>
    ELSE IF s[1].k \in {"open", "close"} /\ s[1].a = ""
            /\ s[1].v \in {"content", "paragraph", "section"}
         THEN DropContainerTags(Tail(s))
         ELSE <<s[1]>> \o DropContainerTags(Tail(s))

\* enhance_citation_link: the marker keeps its href and number, in a bold font
EnhanceLinks(s) ==
    [i \in 1..Len(s) |-> IF s[i].k = "link" /\ s[i].v = "u"
                         THEN [s[i] EXCEPT !.v = "font"] ELSE s[i]]

\* re.sub(r'\s+', ' ', content).strip()
RECURSIVE CollapseWs(_)
CollapseWs(s) ==
    IF Len(s) = 0 THEN <<>>
    ELSE IF s[1].k = "ws" /\ Len(s) > 1 /\ s[2].k = "ws" THEN CollapseWs(Tail(s))
    ELSE <<s[1]>> \o CollapseWs(Tail(s))

\* _enhance_inline_citations_for_pdf; the two substitutions that put a blank
\* between a word character and "[n]" find nothing here: a marker's bracket
\* stands between "&nbsp;" entities and no text token holds a bracket
enhance_inline_citations_for_pdf(content) ==
    Strip(CollapseWs(EnhanceLinks(DropContainerTags(content))))

\* cleaned_content.split(U+2022)
RECURSIVE SplitAtBullet(_, _)
SplitAtBullet(s, cur) ==
    IF Len(s) = 0 THEN <<cur>>
    ELSE IF s[1] = BulletChar THEN <<cur>> \o SplitAtBullet(Tail(s), <<>>)
    ELSE SplitAtBullet(Tail(s), Append(cur, s[1]))

\* one bullet paragraph per non-blank item of the split
RECURSIVE ListItems(_)
ListItems(parts) ==
    IF Len(parts) = 0 THEN <<>>
    ELSE IF Len(Strip(parts[1])) = 0 THEN ListItems(Tail(parts))
    ELSE <<Paragraph(<<BulletChar, Ws>> \o Strip(parts[1]), "BulletText")>>
         \o ListItems(Tail(parts))

\* the flowables of one section, the branch on section_type
SectionFlowables(section) ==
    LET cleaned == enhance_inline_citations_for_pdf(section.content)
    IN  IF Len(Strip(section.content)) = 0 THEN <<>>
        ELSE (CASE section.type = "heading_bold" -> <<Paragraph(cleaned, "MainHeading")>>
                [] section.type = "sub-heading-bold" -> <<Paragraph(cleaned, "SubHeadingBold")>>
                [] section.type = "sub-heading" -> <<Paragraph(cleaned, "SubHeading")>>
                [] section.type = "paragraph" -> <<Paragraph(cleaned, "ParagraphText")>>
                [] section.type = "content" -> <<Paragraph(cleaned, "ContentText")>>
                [] section.type = "list" -> ListItems(SplitAtBullet(cleaned, <<>>))
                [] OTHER -> <<Paragraph(cleaned, "ContentText")>>)
             \o <<Spacer>>

RECURSIVE AllSectionFlowables(_)
AllSectionFlowables(sections) ==
    IF Len(sections) = 0 THEN <<>>
    ELSE SectionFlowables(sections[1]) \o AllSectionFlowables(Tail(sections))

\* f'[{citation_num}] <link href="{citation_url}">{citation_url}</link>'
SourceRef(citation_num, citation_url) ==
    [k |-> "ref", v |-> "", a |-> "", n |-> citation_num, u |-> citation_url]

SourcesHeading == Paragraph(<<Word("Citation"), Ws, Word("Sources")>>, "SubHeadingBold")

\* a bibliography that lists each URL once
RECURSIVE SourceEntriesByUrl(_)
SourceEntriesByUrl(citations) ==
    IF Len(citations) = 0 THEN <<>>
    ELSE LET rest == SourceEntriesByUrl(SubSeq(citations, 1, Len(citations) - 1))
             last == citations[Len(citations)]
         IN  IF \E i \in 1..(Len(citations) - 1) : citations[i].value.url = last.value.url
             THEN rest
             ELSE rest \o <<Paragraph(<<SourceRef(last.key, last.value.url)>>, "ContentText"),
                            Spacer>>

\* "for citation_num, citation_info in citations.items()": one entry per key,
\* in the order the keys were inserted
RECURSIVE SourceEntries(_)
SourceEntries(citations) ==
    IF Len(citations) = 0 THEN <<>>
    ELSE <<Paragraph(<<SourceRef(citations[1].key, citations[1].value.url)>>, "ContentText"),
           Spacer>> \o SourceEntries(Tail(citations))

\* "if citations:" the citation summary section
CitationSummary(citations) ==
    IF Len(citations) = 0 THEN <<>>
    ELSE <<Spacer, HRFlowable, Spacer, SourcesHeading, Spacer>> \o SourceEntries(citations)

\* the story of _create_professional_pdf_with_enhanced_formatting; the key
\* 'title' is always present in the parsed content, so get() returns it
Story(parsed_content) ==
    <<Paragraph(parsed_content.title, "ReportTitle"), Spacer, HRFlowable, Spacer>>
    \o AllSectionFlowables(parsed_content.sections)
    \o CitationSummary(parsed_content.citations)

(***************************************************************************)
(* PPTXMLParser                                                            *)
(***************************************************************************)
\* first index >= i of an open tag named tag that carries a type attribute
RECURSIVE IndexOfTyped(_, _, _)
IndexOfTyped(s, tag, i) ==
    IF i > Len(s) THEN 0
    ELSE IF s[i].k = "open" /\ s[i].v = tag /\ s[i].a # "" THEN i
    ELSE IndexOfTyped(s, tag, i + 1)

\* re.finditer(r'<tag type="(.*?)">(.*?)</tag>', s, DOTALL)
RECURSIVE FindTyped(_, _, _)
FindTyped(s, tag, from) ==
    LET i == IndexOfTyped(s, tag, from)
        j == IF i = 0 THEN 0 ELSE IndexFrom(s, Close(tag), i + 1)
    IN  IF i = 0 \/ j = 0 THEN <<>>
        ELSE <<[type |-> s[i].a, content |-> SubSeq(s, i + 1, j - 1)]>>
             \o FindTyped(s, tag, j + 1)

\* re.search(r'<tag>(.*?)</tag>') with strip(), '' when there is no match
FirstStripped(s, tag) ==
    LET m == FindBlocks(s, tag, 1)
    IN  IF Len(m) = 0 THEN <<>> ELSE Strip(m[1].content)

\* every match of r'<tag>(.*?)</tag>', stripped
AllStripped(s, tag) ==
    LET m == FindBlocks(s, tag, 1)
    IN  [i \in 1..Len(m) |-> Strip(m[i].content)]

parse_slide_content(content, slide_type) ==
    [title |-> FirstStripped(content, "slide_title"),
     subtitle |-> FirstStripped(content, "subtitle"),
     bullet_points |-> AllStripped(content, "bullet"),
     content_blocks |-> AllStripped(content, "content_block"),
     visual_elements |->
        LET m == FindTyped(content, "visual_element", 1)
        IN  [i \in 1..Len(m) |-> [type |-> m[i].type, description |-> Strip(m[i].content)]],
     notes |-> FirstStripped(content, "speaker_notes"),
     type |-> slide_type]

\* 'template_type' keeps its default when the tag is absent
TemplateTypeOf(xml_content) ==
    IF Len(FindBlocks(xml_content, "template_type", 1)) = 0
    THEN <<Word("executive")>>
    ELSE FirstStripped(xml_content, "template_type")

parse_presentation_xml(xml_content) ==
    LET m == FindTyped(xml_content, "slide", 1)
        slides == [i \in 1..Len(m) |-> parse_slide_content(m[i].content, m[i].type)]
    IN  [title |-> FirstStripped(xml_content, "presentation_title"),
         template_type |-> TemplateTypeOf(xml_content),
         slides |-> slides,
         citations |-> <<>>,
         slide_count |-> Len(slides)]

(***************************************************************************)
(* PPTPresentationGenerator: slides                                        *)
(***************************************************************************)
Slide(layout, title, subtitle, body, notes) ==
    [layout |-> layout, title |-> title, subtitle |-> subtitle, body |-> body, notes |-> notes]

\* all_content[:5]
BulletCap == 5

Take(l, n) == SubSeq(l, 1, IF Len(l) < n THEN Len(l) ELSE n)

StartsWithBullet(text) == Len(text) > 0 /\ text[1] = BulletChar

StartsWithLabel(text) ==
    Len(text) > 0 /\ text[1] \in {Word("Problem:"), Word("Solution:"), Word("Benefits:")}

create_title_slide(slide_data) ==
    Slide(0, slide_data.title, slide_data.subtitle, <<>>, <<>>)

\* the default layout 1 has a body placeholder, so the body is always filled
create_content_slide(slide_data) ==
    LET all_content == slide_data.bullet_points \o slide_data.content_blocks
        shown == Take(all_content, BulletCap)
    IN  Slide(1, slide_data.title, <<>>,
              [i \in 1..Len(shown) |->
                  IF StartsWithBullet(Strip(shown[i])) THEN Strip(shown[i])
                  ELSE <<BulletChar, Ws>> \o Strip(shown[i])],
              slide_data.notes)

create_use_case_slide(slide_data) ==
    LET all_content == slide_data.content_blocks \o slide_data.bullet_points
        shown == Take(all_content, BulletCap)
    IN  Slide(1, slide_data.title, <<>>,
              [i \in 1..Len(shown) |->
                  IF StartsWithBullet(Strip(shown[i])) \/ StartsWithLabel(Strip(shown[i]))
                  THEN Strip(shown[i])
                  ELSE <<BulletChar, Ws>> \o Strip(shown[i])],
              slide_data.notes)

\* _create_slide: the slides one entry adds to the presentation
create_slide(slide_data) ==
    CASE slide_data.type = "title_slide" -> <<create_title_slide(slide_data)>>
      [] slide_data.type = "content_slide" -> <<create_content_slide(slide_data)>>
      [] slide_data.type = "use_case_slide" -> <<create_use_case_slide(slide_data)>>
      [] OTHER -> <<create_content_slide(slide_data)>>

\* an order of rendering that puts the title slides first
TitleSlidesFirst(slides) ==
    SelectSeq(slides, LAMBDA d : d.type = "title_slide")
    \o SelectSeq(slides, LAMBDA d : d.type # "title_slide")

\* "for slide_data in parsed_content['slides']": the entries in list order
RenderOrder(slides) == slides

RECURSIVE CreateSlides(_)
CreateSlides(slides) ==
    IF Len(slides) = 0 THEN <<>>
    ELSE create_slide(slides[1]) \o CreateSlides(Tail(slides))

\* the loop of _create_powerpoint_from_xml
create_powerpoint_slides(parsed_content) == CreateSlides(RenderOrder(parsed_content.slides))

(***************************************************************************)
(* FirstDeckTemplate                                                       *)
(***************************************************************************)
\* content.text = items[0], then one added paragraph per further item
BodyOf(items) == items

first_deck_slide(slide_data) ==
    CASE slide_data.type = "title" ->
            <<Slide(0, slide_data.title, slide_data.subtitle, <<>>, <<>>)>>
      [] slide_data.type = "company_overview" ->
            <<Slide(1, slide_data.title, <<>>, BodyOf(slide_data.key_points), <<>>)>>
      [] slide_data.type = "opportunities" ->
            <<Slide(1, slide_data.title, <<>>, BodyOf(slide_data.opportunities), <<>>)>>
      [] slide_data.type = "value_proposition" ->
            <<Slide(1, slide_data.title, <<>>, BodyOf(slide_data.value_items), <<>>)>>
      [] slide_data.type = "next_steps" ->
            <<Slide(1, slide_data.title, <<>>, BodyOf(slide_data.steps), <<>>)>>
      [] OTHER -> <<>>

\* FirstDeckTemplate.create_slides
RECURSIVE first_deck_create_slides(_)
first_deck_create_slides(slides) ==
    IF Len(slides) = 0 THEN <<>>
    ELSE first_deck_slide(slides[1]) \o first_deck_create_slides(Tail(slides))

(***************************************************************************)
(* UseCaseTemplate                                                         *)
(***************************************************************************)
\* f"* {item}\n" for each item: one line per item, led by the bullet character
BulletLines(items) == [i \in 1..Len(items) |-> <<BulletChar, Ws>> \o items[i]]

\* the paragraphs of content_text in _create_detailed_slide: the text is cut
\* at its line ends, an empty line is an empty paragraph
detailed_slide_body(data) ==
    << <<Word("Problem:"), Ws>> \o data.problem, <<>>,
       <<Word("Solution:"), Ws>> \o data.solution, <<>>,
       <<Word("Benefits:")>> >>
    \o BulletLines(data.benefits)
    \o << <<>>, <<Word("Timeline:"), Ws>> \o data.timeline >>

\* the paragraphs of content_text in _create_risk_slide
risk_slide_body(data) ==
    << <<Word("Risk"), Ws, Word("Factors:")>> >> \o BulletLines(data.risks)
    \o << <<>>, <<Word("Mitigation"), Ws, Word("Strategies:")>> >>
    \o BulletLines(data.mitigations) \o << <<>> >>

\* slide_type.startswith('detailed_use_case')
DetailedTypes == {"detailed_use_case", "detailed_use_case_1", "detailed_use_case_2"}

use_case_slide(slide_data) ==
    CASE slide_data.type = "title" ->
            <<Slide(0, slide_data.title, slide_data.subtitle, <<>>, <<>>)>>
      [] slide_data.type = "overview" ->
            <<Slide(1, slide_data.title, <<>>, BodyOf(slide_data.use_cases), <<>>)>>
      [] slide_data.type \in DetailedTypes ->
            <<Slide(1, slide_data.title, <<>>, detailed_slide_body(slide_data), <<>>)>>
      [] slide_data.type = "implementation" ->
            <<Slide(1, slide_data.title, <<>>, BodyOf(slide_data.phases), <<>>)>>
      [] slide_data.type = "risk_management" ->
            <<Slide(1, slide_data.title, <<>>, risk_slide_body(slide_data), <<>>)>>
      [] OTHER -> <<>>

\* UseCaseTemplate.create_slides
RECURSIVE use_case_create_slides(_)
use_case_create_slides(slides) ==
    IF Len(slides) = 0 THEN <<>>
    ELSE use_case_slide(slides[1]) \o use_case_create_slides(Tail(slides))

\* template = TEMPLATE_REGISTRY[presentation_style](); template.create_slides(ppt, structure)
template_create_slides(template, slides) ==
    CASE template = "first_deck" -> first_deck_create_slides(slides)
      [] template = "use_case" -> use_case_create_slides(slides)

(***************************************************************************)
(* Inputs of the scanner                                                   *)
(***************************************************************************)
MaxLen == 4

SeqsUpTo(S, n) == UNION {[1..m -> S] : m \in 0..n}

RECURSIVE Flatten(_)
Flatten(ss) == IF Len(ss) = 0 THEN <<>> ELSE ss[1] \o Flatten(Tail(ss))

Cite(name, url) == citation_tag(name, url)
SourceA == <<Word("Source"), Ws, Word("A")>>
UrlA == <<Word("http://a.test")>>
UrlX == <<Word("http://x.test")>>

\* a valid pair, a pair with an empty name, a pair whose URL is blank
ValidPair == Cite(SourceA, UrlA)
EmptyNamePair == Cite(<<>>, UrlX)
BlankUrlPair == Cite(SourceA, <<Ws>>)

\* <heading_bold>Title</heading_bold>
TitleBlock == <<Open("heading_bold"), Word("Title"), Close("heading_bold")>>

\* <content>Hello <citation_name>Source A</citation_name><citation_url>http://a.test
\* </citation_url> world</content>
CitedBlock ==
    <<Open("content"), Word("Hello"), Ws>> \o ValidPair \o <<Ws, Word("world"), Close("content")>>

\* the pieces an input text is made of
Pieces ==
    { TitleBlock, CitedBlock,
      <<Open("content")>>, <<Close("content")>>,
      <<Open("section")>>, <<Close("section")>>,
      ValidPair, EmptyNamePair, BlankUrlPair }

ScanInputs == {Flatten(ss) : ss \in SeqsUpTo(Pieces, MaxLen)}

NoParse == [title |-> <<>>, sections |-> <<>>, citations |-> <<>>,
            inline_citations |-> <<>>, log |-> <<>>]

InitScan ==
    /\ pc = "start"
    /\ kind = "scan"
    /\ raw \in ScanInputs
    /\ parsed = NoParse
    /\ all_sections = <<>>
    /\ story = <<>>
    /\ structure = [presentation_title |-> <<>>, slides |-> <<>>]
    /\ ppt = <<>>
    /\ tmp_file = "none"
    /\ s3 = {}
    /\ render = "pending"
    /\ result = "none"
    /\ NoRequest
    /\ FirstRender
    /\ NoThreads
    /\ NoStatus

\* ReportXMLParser.parse_xml_tags(xml_content)
Scan ==
    /\ pc = "start"
    /\ kind = "scan"
    /\ parsed' = parse_xml_tags(raw)
    /\ all_sections' = SortedSections(raw)
    /\ pc' = "scanned"
    /\ UNCHANGED <<kind, raw, story, structure, ppt, tmp_file, s3, render, result, request_vars, rerender_vars, thread_vars, status_vars>>

NextScan == Scan

SpecScan == InitScan /\ [][NextScan]_vars

(***************************************************************************)
(* Inputs of the scanner: citation_name tags with and without a URL        *)
(***************************************************************************)
\* <citation_name>Stray</citation_name>, with no citation_url after it
StrayName == <<CNO, Word("Stray"), CNC>>
MidText == <<Ws, Word("mid"), Ws>>

CitePieces == {StrayName, MidText, ValidPair, EmptyNamePair}

\* one content block whose text is made of the pieces
CiteInputs ==
    {<<Open("content"), Word("A")>> \o Flatten(ss) \o <<Word("end"), Close("content")>> :
        ss \in SeqsUpTo(CitePieces, MaxLen)}

InitCite ==
    /\ pc = "start"
    /\ kind = "scan"
    /\ raw \in CiteInputs
    /\ parsed = NoParse
    /\ all_sections = <<>>
    /\ story = <<>>
    /\ structure = [presentation_title |-> <<>>, slides |-> <<>>]
    /\ ppt = <<>>
    /\ tmp_file = "none"
    /\ s3 = {}
    /\ render = "pending"
    /\ result = "none"
    /\ NoRequest
    /\ FirstRender
    /\ NoThreads
    /\ NoStatus

SpecCite == InitCite /\ [][NextScan]_vars

(***************************************************************************)
(* Inputs of the generators                                                *)
(***************************************************************************)
MaxReportBlocks == 3
MaxSlides == 3
MaxItems == 6

\* the text w followed by the number i
Numbered(w, i) == [k |-> "text", v |-> w, a |-> "", n |-> Str(i), u |-> <<>>]

Block(tag, body) == <<Open(tag)>> \o body \o <<Close(tag)>>

\* <tag>w 1</tag> ... <tag>w n</tag>
RECURSIVE Items(_, _, _)
Items(tag, w, n) ==
    IF n = 0 THEN <<>> ELSE Items(tag, w, n - 1) \o Block(tag, <<Numbered(w, n)>>)

SubHeadingBlock == Block("sub-heading", <<Word("Overview")>>)
ListBlock == Block("list", Items("bullet", "item", 2))
NumberedListBlock == Block("list", Items("number", "step", 2))

ReportPieces == {TitleBlock, CitedBlock, SubHeadingBlock, ListBlock, NumberedListBlock}

ReportInputs == {Flatten(ss) : ss \in SeqsUpTo(ReportPieces, MaxReportBlocks)}

SlideXml(type, title, body) ==
    <<OpenAttr("slide", type)>> \o Block("slide_title", <<Word(title)>>) \o body
    \o <<Close("slide")>>

TitleSlideXml ==
    SlideXml("title_slide", "Strategy",
             Block("subtitle", <<Word("Advantage")>>)
             \o Block("speaker_notes", <<Word("Welcome")>>))

OverviewSlideXml ==
    SlideXml("content_slide", "Overview",
             Items("bullet", "point", 2) \o Block("speaker_notes", <<Word("Background")>>))

StepsSlideXml ==
    SlideXml("content_slide", "Steps",
             Items("bullet", "step", MaxItems) \o Items("content_block", "detail", 1))

UseCaseSlideXml ==
    SlideXml("use_case_slide", "Case",
             Block("content_block", <<Word("Challenge:"), Ws, Word("state")>>)
             \o Block("content_block", <<Word("Solution:"), Ws, Word("plan")>>)
             \o Block("content_block", <<Word("Benefits:"), Ws, Word("value")>>)
             \o Items("bullet", "Timeline", 3)
             \o Block("speaker_notes", <<Word("Context")>>))

AgendaSlideXml == SlideXml("agenda_slide", "Agenda", Items("bullet", "topic", 1))

SlidePieces ==
    {TitleSlideXml, OverviewSlideXml, StepsSlideXml, UseCaseSlideXml, AgendaSlideXml}

SlideInputs == {Flatten(ss) : ss \in SeqsUpTo(SlidePieces, MaxSlides)}

\* one entry of the "slides" list of the template's JSON structure
DeckEntry(type, title, items) ==
    [type |-> type, title |-> <<Word(title)>>, subtitle |-> <<Word("Overview")>>,
     key_points |-> IF type = "company_overview" THEN items ELSE <<>>,
     opportunities |-> IF type = "opportunities" THEN items ELSE <<>>,
     value_items |-> IF type = "value_proposition" THEN items ELSE <<>>,
     steps |-> IF type = "next_steps" THEN items ELSE <<>>]

Points(w, n) == [i \in 1..n |-> <<Numbered(w, i)>>]

DeckEntries ==
    { DeckEntry("title", "Partnership", <<>>),
      DeckEntry("company_overview", "Company", Points("fact", 3)),
      DeckEntry("company_overview", "Profile", Points("fact", MaxItems)),
      DeckEntry("opportunities", "Opportunities", Points("opportunity", 3)),
      DeckEntry("agenda", "Agenda", Points("topic", 2)) }

DeckStructures ==
    {[presentation_title |-> <<Word("Partnership")>>, slides |-> ss] :
        ss \in SeqsUpTo(DeckEntries, MaxSlides)}

UseCaseEntry(type, title, benefits) ==
    [type |-> type, title |-> <<Word(title)>>, subtitle |-> <<Word("Guide")>>,
     use_cases |-> IF type = "overview" THEN benefits ELSE <<>>,
     problem |-> <<Word("delays")>>, solution |-> <<Word("assistant")>>,
     benefits |-> IF type \in DetailedTypes THEN benefits ELSE <<>>,
     timeline |-> <<Word("Q3")>>,
     phases |-> <<>>, risks |-> <<>>, mitigations |-> <<>>]

UseCaseEntries ==
    { UseCaseEntry("title", "Strategy", <<>>),
      UseCaseEntry("overview", "Portfolio", Points("case", 2)),
      UseCaseEntry("detailed_use_case_1", "Triage", Points("benefit", 2)),
      UseCaseEntry("detailed_use_case_2", "Routing", Points("benefit", 3)) }

UseCaseStructures ==
    {[presentation_title |-> <<Word("Strategy")>>, slides |-> ss] :
        ss \in SeqsUpTo(UseCaseEntries, MaxSlides - 1)}

NoStructure == [presentation_title |-> <<>>, slides |-> <<>>]

(***************************************************************************)
(* The generators: parse, build, save, upload                              *)
(***************************************************************************)
InitCommon ==
    /\ pc = "start"
    /\ parsed = NoParse
    /\ all_sections = <<>>
    /\ story = <<>>
    /\ ppt = <<>>
    /\ tmp_file = "none"
    /\ s3 = {}
    /\ render = "pending"
    /\ result = "none"
    /\ NoOrchestrator
    /\ FirstRender
    /\ NoThreads
    /\ NoStatus

InitPdf ==
    /\ InitCommon /\ kind = "pdf" /\ raw \in ReportInputs /\ structure = NoStructure
    /\ presentation_style = "none"
InitPptx ==
    /\ InitCommon /\ kind = "pptx" /\ raw \in SlideInputs /\ structure = NoStructure
    /\ presentation_style = "none"
\* generate_presentation(..., presentation_style): the template and the structure
\* the analysis made for it
InitDeck ==
    /\ InitCommon /\ kind = "deck" /\ raw = <<>>
    /\ \/ presentation_style = "first_deck" /\ structure \in DeckStructures
       \/ presentation_style = "use_case" /\ structure \in UseCaseStructures

Init == InitPdf \/ InitPptx \/ InitDeck

\* an error handler that goes on to the upload
AfterRenderErrorContinue == "saved"

\* "except Exception: ... return None": the generator is left
AfterRenderError == "done"

\* _generate_and_upload_pdf_from_xml: parse_xml_tags(xml_content)
PdfParse ==
    /\ kind = "pdf" /\ pc = "start"
    /\ parsed' = parse_xml_tags(raw)
    /\ all_sections' = SortedSections(raw)
    /\ pc' = "parsed"
    /\ UNCHANGED <<kind, raw, story, structure, ppt, tmp_file, s3, render, result, request_vars, rerender_vars, thread_vars, status_vars>>

\* PPTXMLParser.parse_presentation_xml(xml_content)
PptxParse ==
    /\ kind = "pptx" /\ pc = "start"
    /\ structure' = parse_presentation_xml(raw)
    /\ pc' = "parsed"
    /\ UNCHANGED <<kind, raw, parsed, all_sections, story, ppt, tmp_file, s3, render, result, request_vars, rerender_vars, thread_vars, status_vars>>

\* "No PDF generation libraries available" / "python-pptx not available"
NoLibrary ==
    /\ \/ kind = "pdf" /\ pc = "parsed"
       \/ kind \in {"pptx", "deck"} /\ pc = "start"
    /\ result' = "None"
    /\ pc' = "done"
    /\ UNCHANGED <<kind, raw, parsed, all_sections, story, structure, ppt, tmp_file, s3, render, request_vars, rerender_vars, thread_vars, status_vars>>

\* "story = []": a render starts its story from an empty list, whatever an
\* earlier render appended to its own
NewStoryKeepsOld(old) == old

NewStory(old) == <<>>

\* "ppt = Presentation()": a render starts from a new, empty presentation
NewPresentation(old) == <<>>

\* _create_professional_pdf_with_enhanced_formatting returns: the story was
\* built and doc.build(story) wrote the file, or left none or an empty one
PdfBuild ==
    /\ kind = "pdf" /\ pc = "parsed"
    /\ story' = NewStory(story) \o Story(parsed)
    /\ \E f \in {"complete", "empty", "none"} :
          /\ tmp_file' = f
          /\ render' = IF f = "complete" THEN "ok" ELSE "failed"
    /\ pc' = "built"
    /\ UNCHANGED <<kind, raw, parsed, all_sections, structure, ppt, s3, result, request_vars, rerender_vars, thread_vars, status_vars>>

\* "Verify PDF was created"
PdfVerify ==
    /\ kind = "pdf" /\ pc = "built"
    /\ IF tmp_file \in {"none", "empty"}
       THEN pc' = "done" /\ result' = "None"
       ELSE pc' = "saved" /\ result' = result
    /\ UNCHANGED <<kind, raw, parsed, all_sections, story, structure, ppt, tmp_file, s3, render, request_vars, rerender_vars, thread_vars, status_vars>>

\* the loop over parsed_content['slides'] of _create_powerpoint_from_xml
PptxCreateSlides ==
    /\ kind = "pptx" /\ pc = "parsed"
    /\ ppt' = NewPresentation(ppt) \o create_powerpoint_slides(structure)
    /\ pc' = "built"
    /\ UNCHANGED <<kind, raw, parsed, all_sections, story, structure, tmp_file, s3, render, result, request_vars, rerender_vars, thread_vars, status_vars>>

\* generate_presentation: template.create_slides(ppt, structure)
DeckCreateSlides ==
    /\ kind = "deck" /\ pc = "start"
    /\ ppt' = NewPresentation(ppt) \o template_create_slides(presentation_style, structure.slides)
    /\ pc' = "built"
    /\ UNCHANGED <<kind, raw, parsed, all_sections, story, structure, tmp_file, s3, render, result, request_vars, rerender_vars, thread_vars, status_vars>>

\* ppt.save(filename) returns
Save ==
    /\ kind \in {"pptx", "deck"} /\ pc = "built"
    /\ tmp_file' = "complete"
    /\ render' = "ok"
    /\ pc' = "saved"
    /\ UNCHANGED <<kind, raw, parsed, all_sections, story, structure, ppt, s3, result, request_vars, rerender_vars, thread_vars, status_vars>>

\* an exception while the story is built, in doc.build, in os.makedirs or in
\* ppt.save: the file is absent or partly written and the handler is entered
RenderError ==
    /\ \/ kind = "pdf" /\ pc = "parsed"
       \/ kind \in {"pptx", "deck"} /\ pc = "built"
    /\ \E f \in {"none", "partial"} : tmp_file' = f
    /\ render' = "failed"
    /\ result' = "None"
    /\ pc' = AfterRenderError
    /\ UNCHANGED <<kind, raw, parsed, all_sections, story, structure, ppt, s3, request_vars, rerender_vars, thread_vars, status_vars>>

\* _upload_pdf_to_s3 / _upload_pptx_to_s3: upload_file stores the file or raises
Upload ==
    /\ kind \in {"pdf", "pptx"} /\ pc = "saved"
    /\ \E ok \in BOOLEAN :
          IF ok
          THEN s3' = s3 \cup {[kind |-> kind, content |-> tmp_file]} /\ result' = "url"
          ELSE s3' = s3 /\ result' = "None"
    /\ pc' = "uploaded"
    /\ UNCHANGED <<kind, raw, parsed, all_sections, story, structure, ppt, tmp_file, render, request_vars, rerender_vars, thread_vars, status_vars>>

\* "Cleanup": os.unlink of the temporary file, a failure is only logged
Cleanup ==
    /\ kind \in {"pdf", "pptx"} /\ pc = "uploaded"
    /\ \E ok \in BOOLEAN : tmp_file' = IF ok THEN "none" ELSE tmp_file
    /\ pc' = "done"
    /\ UNCHANGED <<kind, raw, parsed, all_sections, story, structure, ppt, s3, render, result, request_vars, rerender_vars, thread_vars, status_vars>>

\* MultiTemplatePPTGenerator._upload_to_s3: the local file is removed only
\* after a successful upload_file
DeckUpload ==
    /\ kind = "deck" /\ pc = "saved"
    /\ \E ok \in BOOLEAN :
          IF ok
          THEN /\ s3' = s3 \cup {[kind |-> kind, content |-> tmp_file]}
               /\ result' = "url"
               /\ \E removed \in BOOLEAN : tmp_file' = IF removed THEN "none" ELSE tmp_file
          ELSE s3' = s3 /\ result' = "None" /\ tmp_file' = tmp_file
    /\ pc' = "done"
    /\ UNCHANGED <<kind, raw, parsed, all_sections, story, structure, ppt, render, request_vars, rerender_vars, thread_vars, status_vars>>

Next ==
    \/ PdfParse
    \/ PptxParse
    \/ NoLibrary
    \/ PdfBuild
    \/ PdfVerify
    \/ PptxCreateSlides
    \/ DeckCreateSlides
    \/ Save
    \/ RenderError
    \/ Upload
    \/ Cleanup
    \/ DeckUpload

Spec == Init /\ [][Next]_vars

(***************************************************************************)
(* The same generator object renders the same input once more              *)
(***************************************************************************)
MaxRenders == 2

\* the generator has returned and is called again with the same argument: its
\* locals are gone, the objects of the first call are garbage that the second
\* call must not read
Rerender ==
    /\ pc = "done"
    /\ renders < MaxRenders
    /\ renders' = renders + 1
    /\ first' = IF renders = 1
                THEN [built |-> IF kind = "pdf" THEN Len(story) > 0 ELSE render # "pending",
                      parsed |-> parsed, story |-> story, structure |-> structure, ppt |-> ppt]
                ELSE first
    /\ pc' = "start"
    /\ tmp_file' = "none"
    /\ render' = "pending"
    /\ result' = "none"
    /\ UNCHANGED <<kind, raw, parsed, all_sections, story, structure, ppt, s3, request_vars, thread_vars, status_vars>>

NextRerender ==
    \/ Next
    \/ Rerender

SpecRerender == Init /\ [][NextRerender]_vars

(***************************************************************************)
(* Requests: AgenticWAFROrchestrator.process_request / _handle_start, the  *)
(* command-line MultiTemplatePPTGenerator and PresentationTemplates        *)
(***************************************************************************)
valid_formats == {"pdf", "ppt", "both"}
valid_styles == {"first_deck", "marketing", "use_case", "technical", "strategy"}
TEMPLATE_REGISTRY == {"first_deck", "marketing", "use_case", "technical", "strategy"}
TEMPLATE_CONFIGS == {"executive", "technical", "marketing", "strategy"}

\* process_request: an invalid presentation_style is replaced by 'first_deck'
OrchestratorStyle(requested) ==
    IF requested \notin valid_styles THEN "first_deck" ELSE requested

\* agents/multi_template_ppt_generator.py generate_presentation: "Validate template"
AgentStyle(requested) ==
    IF requested \notin TEMPLATE_REGISTRY THEN "first_deck" ELSE requested

\* PresentationTemplates.get_template_config: TEMPLATE_CONFIGS.get(t, TEMPLATE_CONFIGS['executive'])
get_template_config(template_type) ==
    IF template_type \in TEMPLATE_CONFIGS THEN template_type ELSE "executive"

\* _get_completion_message: what the message says of each requested artifact
get_completion_message(output_format, r_url, p_url) ==
    LET pdf_status == IF r_url # "None" THEN "pdf available" ELSE "pdf generation failed"
        ppt_status == IF p_url # "None" THEN "ppt available" ELSE "ppt generation failed"
    IN  IF output_format = "both" THEN <<pdf_status, ppt_status>>
        ELSE IF output_format = "ppt" THEN <<ppt_status>>
        ELSE <<pdf_status>>

\* the response of _handle_start: 'status': 'completed', the presentation_style in force,
\* the message, and a URL key for each URL that is not None
CompletedResponse(output_format, in_force, r_url, p_url) ==
    [status |-> "completed",
     presentation_style |-> IF output_format \in {"ppt", "both"} THEN in_force ELSE "None",
     message |-> get_completion_message(output_format, r_url, p_url),
     report_url |-> IF r_url # "None" THEN r_url ELSE "absent",
     presentation_url |-> IF p_url # "None" THEN p_url ELSE "absent"]

ErrorResponse(error) == [NoResponse EXCEPT !.status = error]

RequestFormats == valid_formats \cup {"docx"}
RequestStyles == {"first_deck", "executive", "neon"}
RequestEntries == {"orchestrator", "standalone", "template_config"}
Payloads ==
    {[entry |-> "orchestrator", output_format |-> f, presentation_style |-> st] :
        f \in RequestFormats, st \in RequestStyles}
    \cup {[entry |-> e, output_format |-> "ppt", presentation_style |-> st] :
        e \in RequestEntries \ {"orchestrator"}, st \in RequestStyles}

\* the markup the report agent may hand to the PDF generator
RequestReports == {CitedBlock, TitleBlock \o SubHeadingBlock \o CitedBlock}
\* the structures the analysis may hand to the template
RequestStructures == {ss \in DeckStructures : Len(ss.slides) = 1}

InitRequest ==
    /\ pc = "idle"
    /\ kind = "none"
    /\ raw = <<>>
    /\ parsed = NoParse
    /\ all_sections = <<>>
    /\ story = <<>>
    /\ structure = NoStructure
    /\ ppt = <<>>
    /\ tmp_file = "none"
    /\ s3 = {}
    /\ render = "pending"
    /\ result = "none"
    /\ payload \in Payloads
    /\ opc = "received"
    /\ presentation_style = "none"
    /\ report_url = "None"
    /\ presentation_url = "None"
    /\ response = NoResponse
    /\ FirstRender
    /\ NoThreads
    /\ NoStatus

\* process_request: validation of output_format and of presentation_style
ProcessRequest ==
    /\ opc = "received" /\ payload.entry = "orchestrator"
    /\ IF payload.output_format \notin valid_formats
       THEN /\ response' = ErrorResponse("error")
            /\ opc' = "responded"
            /\ presentation_style' = presentation_style
       ELSE /\ presentation_style' = OrchestratorStyle(payload.presentation_style)
            /\ opc' = "start_pdf"
            /\ response' = response
    /\ UNCHANGED <<pc, kind, raw, parsed, all_sections, story, structure, ppt, tmp_file, s3,
                   render, result, payload, report_url, presentation_url, rerender_vars, thread_vars, status_vars>>

\* an exception of the research, profile or use-case steps of _handle_start
\* reaches the handler of process_request
HandleStartError ==
    /\ opc = "start_pdf"
    /\ response' = ErrorResponse("error")
    /\ opc' = "responded"
    /\ UNCHANGED <<pc, kind, raw, parsed, all_sections, story, structure, ppt, tmp_file, s3,
                   render, result, payload, presentation_style, report_url, presentation_url, rerender_vars, thread_vars, status_vars>>

\* _handle_start: "if output_format in ['pdf', 'both']" calls the report generator
StartReport ==
    /\ opc = "start_pdf"
    /\ IF payload.output_format \in {"pdf", "both"}
       THEN /\ kind' = "pdf" /\ pc' = "start" /\ raw' \in RequestReports
            /\ opc' = "pdf"
       ELSE /\ UNCHANGED <<kind, pc, raw, rerender_vars, thread_vars, status_vars>>
            /\ opc' = "start_ppt"
    /\ UNCHANGED <<parsed, all_sections, story, structure, ppt, tmp_file, s3, render, result,
                   payload, presentation_style, report_url, presentation_url, response, rerender_vars, thread_vars, status_vars>>

\* generate_consolidated_report returns pdf_url
EndReport ==
    /\ opc = "pdf" /\ kind = "pdf" /\ pc = "done"
    /\ report_url' = result
    /\ opc' = "start_ppt"
    /\ UNCHANGED <<pc, kind, raw, parsed, all_sections, story, structure, ppt, tmp_file, s3,
                   render, result, payload, presentation_style, presentation_url, response, rerender_vars, thread_vars, status_vars>>

\* _handle_start: "if output_format in ['ppt', 'both']" calls generate_presentation,
\* which validates the template once more
StartPresentation ==
    /\ opc = "start_ppt"
    /\ IF payload.output_format \in {"ppt", "both"}
       THEN /\ kind' = "deck" /\ pc' = "start" /\ structure' \in RequestStructures
            /\ presentation_style' = AgentStyle(presentation_style)
            /\ tmp_file' = "none" /\ render' = "pending" /\ result' = "none"
            /\ opc' = "ppt"
       ELSE /\ UNCHANGED <<kind, pc, structure, presentation_style, tmp_file, render, result, rerender_vars, thread_vars, status_vars>>
            /\ opc' = "respond"
    /\ UNCHANGED <<raw, parsed, all_sections, story, ppt, s3,
                   payload, report_url, presentation_url, response, rerender_vars, thread_vars, status_vars>>

\* generate_presentation returns s3_url
EndPresentation ==
    /\ opc = "ppt" /\ kind = "deck" /\ pc = "done"
    /\ presentation_url' = result
    /\ opc' = "respond"
    /\ UNCHANGED <<pc, kind, raw, parsed, all_sections, story, structure, ppt, tmp_file, s3,
                   render, result, payload, presentation_style, report_url, response, rerender_vars, thread_vars, status_vars>>

\* _handle_start: "Prepare response", "Add output URLs", return
Respond ==
    /\ opc = "respond"
    /\ response' = CompletedResponse(payload.output_format, presentation_style, report_url, presentation_url)
    /\ opc' = "responded"
    /\ UNCHANGED <<pc, kind, raw, parsed, all_sections, story, structure, ppt, tmp_file, s3,
                   render, result, payload, presentation_style, report_url, presentation_url, rerender_vars, thread_vars, status_vars>>

\* src/multi_template_ppt_generator.py generate_presentation(pdf_path, template_type):
\* an unknown template raises ValueError, a known one is rendered and saved
StandaloneGenerate ==
    /\ opc = "received" /\ payload.entry = "standalone"
    /\ IF payload.presentation_style \notin TEMPLATE_REGISTRY
       THEN /\ response' = ErrorResponse("ValueError")
            /\ UNCHANGED <<presentation_style, structure, ppt, tmp_file, render, rerender_vars, thread_vars, status_vars>>
       ELSE /\ presentation_style' = payload.presentation_style
            /\ structure' \in RequestStructures
            /\ ppt' = first_deck_create_slides(structure'.slides)
            /\ \E saved \in BOOLEAN :
                  IF saved
                  THEN tmp_file' = "complete" /\ render' = "ok"
                       /\ response' = ErrorResponse("filename")
                  ELSE tmp_file' \in {"none", "partial"} /\ render' = "failed"
                       /\ response' = ErrorResponse("OSError")
    /\ opc' = "responded"
    /\ UNCHANGED <<pc, kind, raw, parsed, all_sections, story, s3, result,
                   payload, report_url, presentation_url, rerender_vars, thread_vars, status_vars>>

\* PresentationTemplates.get_template_config(template_type)
GetTemplateConfig ==
    /\ opc = "received" /\ payload.entry = "template_config"
    /\ presentation_style' = get_template_config(payload.presentation_style)
    /\ response' = [NoResponse EXCEPT !.status = "config", !.presentation_style = presentation_style']
    /\ opc' = "responded"
    /\ UNCHANGED <<pc, kind, raw, parsed, all_sections, story, structure, ppt, tmp_file, s3,
                   render, result, payload, report_url, presentation_url, rerender_vars, thread_vars, status_vars>>

NextRequest ==
    \/ ProcessRequest
    \/ HandleStartError
    \/ StartReport
    \/ PdfParse
    \/ PdfBuild
    \/ PdfVerify
    \/ Upload
    \/ Cleanup
    \/ EndReport
    \/ StartPresentation
    \/ NoLibrary
    \/ DeckCreateSlides
    \/ Save
    \/ RenderError
    \/ DeckUpload
    \/ EndPresentation
    \/ Respond
    \/ StandaloneGenerate
    \/ GetTemplateConfig

SpecRequest == InitRequest /\ [][NextRequest]_vars

(***************************************************************************)
(* Concurrent calls of PPTPresentationGenerator._create_powerpoint_from_xml *)
(***************************************************************************)
MaxThreadSlides == 2
Threads == {1, 2}
Generators == {1, 2}
ThreadStyles == {"technical", "marketing", "neon"}

\* the keys of color_schemes and font_configs
color_schemes == {"executive", "technical", "marketing", "strategy"}

\* color_schemes.get(presentation_style, color_schemes['executive'])
SchemeOf(requested) == IF requested \in color_schemes THEN requested ELSE "executive"

InitConcurrent ==
    /\ pc = "idle"
    /\ kind = "none"
    /\ raw = <<>>
    /\ parsed = NoParse
    /\ all_sections = <<>>
    /\ story = <<>>
    /\ structure = NoStructure
    /\ ppt = <<>>
    /\ tmp_file = "none"
    /\ s3 = {}
    /\ render = "pending"
    /\ result = "none"
    /\ NoRequest
    /\ FirstRender
    /\ NoStatus
    /\ generator_of \in [Threads -> Generators]
    /\ current_colors = [g \in Generators |-> "unset"]
    /\ threads \in [Threads -> [tpc : {"start"}, presentation_style : ThreadStyles,
                                slides_left : 1..MaxThreadSlides, slide_colors : {<<>>}]]
    /\ files = [t \in Threads |-> [state |-> "none", colors |-> <<>>]]

\* the pipeline of a single request does not run
PipelineIdle ==
    UNCHANGED <<pc, kind, raw, parsed, all_sections, story, structure, ppt, tmp_file, s3,
                render, result, request_vars, rerender_vars, status_vars>>

\* _apply_template_styling: "Store configurations for later use"
ApplyTemplateStyling ==
    \E t \in Threads :
    /\ PipelineIdle
    /\ threads[t].tpc = "start"
    /\ current_colors' = [current_colors EXCEPT
                             ![generator_of[t]] = SchemeOf(threads[t].presentation_style)]
    /\ threads' = [threads EXCEPT ![t].tpc = "styled"]
    /\ UNCHANGED <<generator_of, files, status_vars>>

\* _create_slide: one slide is added and styled with self.current_colors and
\* self.current_fonts as they are when the slide is created
ThreadCreateSlide ==
    \E t \in Threads :
    /\ PipelineIdle
    /\ threads[t].tpc = "styled"
    /\ threads[t].slides_left > 0
    /\ threads' = [threads EXCEPT
                      ![t].slides_left = @ - 1,
                      ![t].slide_colors = Append(@, current_colors[generator_of[t]])]
    /\ UNCHANGED <<generator_of, current_colors, files, status_vars>>

\* ppt.save(pptx_filename) in the temp directory of the request's session
ThreadSave ==
    \E t \in Threads :
    /\ PipelineIdle
    /\ threads[t].tpc = "styled"
    /\ threads[t].slides_left = 0
    /\ files' = [files EXCEPT ![t] = [state |-> "saved", colors |-> threads[t].slide_colors]]
    /\ threads' = [threads EXCEPT ![t].tpc = "saved"]
    /\ UNCHANGED <<generator_of, current_colors, status_vars>>

\* upload of the file and os.unlink(pptx_filename)
ThreadUploadAndCleanup ==
    \E t \in Threads :
    /\ PipelineIdle
    /\ threads[t].tpc = "saved"
    /\ files' = [files EXCEPT ![t].state = "uploaded"]
    /\ threads' = [threads EXCEPT ![t].tpc = "done"]
    /\ UNCHANGED <<generator_of, current_colors, status_vars>>

NextConcurrent ==
    \/ ApplyTemplateStyling
    \/ ThreadCreateSlide
    \/ ThreadSave
    \/ ThreadUploadAndCleanup

SpecConcurrent == InitConcurrent /\ [][NextConcurrent]_vars

(***************************************************************************)
(* Properties of the scanner                                               *)
(***************************************************************************)
Scanned == pc = "scanned"

\* occurrences of the token string p in s, counted without overlap
RECURSIVE CountOcc(_, _, _)
CountOcc(s, p, i) ==
    IF i > Len(s) THEN 0
    ELSE IF StartsAt(s, p, i) THEN 1 + CountOcc(s, p, i + Len(p))
    ELSE CountOcc(s, p, i + 1)

\* valid pairs written inside the matched blocks, block by block
RECURSIVE ValidPairsIn(_, _)
ValidPairsIn(blocks, b) ==
    IF b > Len(blocks) THEN 0
    ELSE CountOcc(blocks[b].content, ValidPair, 1) + ValidPairsIn(blocks, b + 1)

\* C1: the numbers registered by one scan are exactly 1..k, one per valid pair
\* occurrence (identical pairs are not merged), the table holds them under the
\* keys "1".."k", and they follow the order of appearance: a citation of a later
\* section has a higher number than one of an earlier section, and within a
\* section numbers grow with the offset of the pair.
C1_CitationNumbersSequential ==
    Scanned =>
        LET inl == parsed.inline_citations
            k == Len(inl)
        IN  /\ Len(parsed.citations) = k
            /\ Len(parsed.log) = k
            /\ k = ValidPairsIn(all_sections, 1)
            /\ \A i \in 1..k :
                  /\ inl[i].number = i
                  /\ Num(parsed.citations[i].key) = i
                  /\ parsed.citations[i].value = inl[i]
            /\ \A i, j \in 1..k :
                  inl[i].number < inl[j].number <=>
                      \/ parsed.log[i].sec < parsed.log[j].sec
                      \/ /\ parsed.log[i].sec = parsed.log[j].sec
                         /\ parsed.log[i].at < parsed.log[j].at

\* two sections cite the identical pair and the later one got the higher number
C1_Witness ==
    /\ Scanned
    /\ \E i, j \in 1..Len(parsed.inline_citations) :
          /\ parsed.log[i].sec < parsed.log[j].sec
          /\ parsed.inline_citations[i].full_name = parsed.inline_citations[j].full_name
          /\ parsed.inline_citations[i].url = parsed.inline_citations[j].url
          /\ parsed.inline_citations[i].number < parsed.inline_citations[j].number

\* the block tags the claim about well-formed input names
ClaimBlockTags ==
    {"heading_bold", "sub-heading-bold", "sub-heading", "content", "section",
     "paragraph", "list"}

IsClaimBlockTag(t) == t.k \in {"open", "close"} /\ t.v \in ClaimBlockTags

RECURSIVE NextBlockTag(_, _)
NextBlockTag(s, i) ==
    IF i > Len(s) THEN 0
    ELSE IF IsClaimBlockTag(s[i]) THEN i
    ELSE NextBlockTag(s, i + 1)

\* the top-level blocks of a text read as markup: an open tag, a body without
\* block tags, the close tag of the same name; ok is FALSE when the text is not
\* of that form
RECURSIVE TopBlocks(_, _)
TopBlocks(s, i) ==
    LET o == NextBlockTag(s, i)
        c == IF o = 0 THEN 0 ELSE NextBlockTag(s, o + 1)
    IN  IF o = 0 THEN [ok |-> TRUE, types |-> <<>>]
        ELSE IF s[o].k = "close" \/ c = 0 THEN [ok |-> FALSE, types |-> <<>>]
        ELSE IF s[c] # Close(s[o].v) THEN [ok |-> FALSE, types |-> <<>>]
        ELSE LET r == TopBlocks(s, c + 1)
             IN  [ok |-> r.ok, types |-> <<s[o].v>> \o r.types]

SectionTypes == [i \in 1..Len(parsed.sections) |-> parsed.sections[i].type]

\* C2: a well-formed input with N matched top-level blocks scans to exactly N
\* sections, in the order of the blocks in the text.
C2_OneSectionPerBlock ==
    (Scanned /\ TopBlocks(raw, 1).ok) => SectionTypes = TopBlocks(raw, 1).types

BlockTagNames == ClaimBlockTags \cup {section_patterns[p] : p \in 1..Len(section_patterns)}

\* an open block tag at i with no close tag of its name after it
Unterminated(i) ==
    /\ raw[i].k = "open"
    /\ raw[i].v \in BlockTagNames
    /\ IndexFrom(raw, Close(raw[i].v), i + 1) = 0

\* C3: when the input holds an open tag without a close tag, the scan still
\* returns, no section starts at that tag, and every section produced is a
\* matched block: its open tag, its body, the close tag of the same name.
C3_UnterminatedBlockDropped ==
    (Scanned /\ \E i \in 1..Len(raw) : Unterminated(i)) =>
        /\ Len(parsed.sections) = Len(all_sections)
        /\ \A b \in 1..Len(all_sections) :
              LET blk == all_sections[b]
                  end == blk.start_pos + Len(blk.content) + 1
              IN  /\ ~Unterminated(blk.start_pos)
                  /\ parsed.sections[b].type = blk.type
                  /\ raw[blk.start_pos] = Open(blk.type)
                  /\ end <= Len(raw)
                  /\ raw[end] = Close(blk.type)
                  /\ blk.content = SubSeq(raw, blk.start_pos + 1, end - 1)

\* an unterminated open tag next to a matched block that did become a section
C3_Witness ==
    /\ Scanned
    /\ \E i \in 1..Len(raw) : Unterminated(i)
    /\ Len(parsed.sections) > 0

\* the input with every pair removed whose name or URL is blank
WithoutEmptyPairs(s) == Replace(Replace(s, EmptyNamePair, <<>>), BlankUrlPair, <<>>)

\* C4: a pair whose name or URL is empty after trimming adds no table entry and
\* does not advance the counter: the table is the one the scan builds from the
\* same input without these pairs.
C4_EmptyPairSkipped ==
    Scanned =>
        /\ \A i \in 1..Len(parsed.citations) :
              /\ Len(parsed.citations[i].value.full_name) > 0
              /\ Len(parsed.citations[i].value.url) > 0
        /\ parsed.citations = parse_xml_tags(WithoutEmptyPairs(raw)).citations
        /\ parsed.inline_citations = parse_xml_tags(WithoutEmptyPairs(raw)).inline_citations

\* <content>, the pair with the empty name, a valid pair, </content>: the valid
\* pair is number 1
C4_Witness ==
    /\ Scanned
    /\ raw = <<Open("content")>> \o EmptyNamePair \o ValidPair \o <<Close("content")>>
    /\ Len(parsed.citations) = 1
    /\ parsed.citations[1].value.number = 1
    /\ parsed.citations[1].value.full_name = SourceA

\* <heading_bold>Title</heading_bold><content>Hello (pair) world</content>
ScenarioHello == TitleBlock \o CitedBlock

\* C5: the scenario scans to a Heading section "Title" followed by a Content
\* section "Hello [1] world", with table entry 1 -> {Source A, http://a.test}.
C5_HeadingAndContentSections ==
    (Scanned /\ raw = ScenarioHello) =>
        /\ parsed.sections =
              << [type |-> "heading_bold", content |-> <<Word("Title")>>],
                 [type |-> "content",
                  content |-> <<Word("Hello"), Ws, Link(UrlA, 1), Ws, Word("world")>>] >>
        /\ Len(parsed.citations) = 1
        /\ Num(parsed.citations[1].key) = 1
        /\ parsed.citations[1].value.full_name = SourceA
        /\ parsed.citations[1].value.url = UrlA

(***************************************************************************)
(* Properties of the renderers and of the upload                           *)
(***************************************************************************)
IsSourceEntry(fl) == fl.f = "Paragraph" /\ Len(fl.text) = 1 /\ fl.text[1].k = "ref"

RECURSIVE IndexOfFlowable(_, _, _)
IndexOfFlowable(st, fl, i) ==
    IF i > Len(st) THEN 0
    ELSE IF st[i] = fl THEN i
    ELSE IndexOfFlowable(st, fl, i + 1)

\* the URL the table stores for citation number n
UrlOfNumber(n) ==
    (CHOOSE e \in {parsed.citations[i] : i \in 1..Len(parsed.citations)} :
        e.value.number = n).value.url

PdfRendered == kind = "pdf" /\ Len(story) > 0

\* C6: the bibliography is in the story if and only if the citation table is
\* non-empty; it comes after every section flowable; it has exactly one entry
\* per citation number, in ascending order, each with the URL of its number.
C6_BibliographyPerNumberAscending ==
    PdfRendered =>
        LET refs == SelectSeq(story, IsSourceEntry)
            h == IndexOfFlowable(story, SourcesHeading, 1)
        IN  /\ (h # 0) <=> (Len(parsed.citations) > 0)
            /\ Len(refs) = Len(parsed.citations)
            /\ \A i \in 1..Len(refs) :
                  /\ Num(refs[i].text[1].n) = i
                  /\ refs[i].text[1].u = UrlOfNumber(i)
            /\ \A i \in 1..Len(story) :
                  /\ IsSourceEntry(story[i]) => (h # 0 /\ i > h)
                  /\ (h # 0 /\ i > h) => (IsSourceEntry(story[i]) \/ story[i] = Spacer)

\* a report that cites the same URL twice lists it under 1 and under 2
C6_Witness ==
    /\ PdfRendered
    /\ Len(parsed.citations) >= 2
    /\ parsed.citations[1].value.url = parsed.citations[2].value.url
    /\ Len(SelectSeq(story, IsSourceEntry)) = Len(parsed.citations)

SlidesCreated == kind \in {"pptx", "deck"} /\ pc = "built"

\* C7: the slide renderer emits exactly one slide per slide entry of the model,
\* whatever the entry's type.
C7_OneSlidePerEntry == SlidesCreated => Len(ppt) = Len(structure.slides)

\* C8: every emitted slide has at most 5 items in its body.
C8_AtMostFiveItems == SlidesCreated => \A i \in 1..Len(ppt) : Len(ppt[i].body) <= BulletCap

\* the type attributes of the slide tags of a text, in text order
SlideTypesIn(s) ==
    LET opens == SelectSeq(s, LAMBDA t : t.k = "open" /\ t.v = "slide")
    IN  [i \in 1..Len(opens) |-> opens[i].a]

\* the titles written in a text, in text order
RECURSIVE SlideTitlesIn(_)
SlideTitlesIn(s) ==
    IF Len(s) < 2 THEN <<>>
    ELSE IF s[1] = Open("slide_title") THEN <<s[2]>> \o SlideTitlesIn(Tail(s))
    ELSE SlideTitlesIn(Tail(s))

\* C9: the slides are rendered in the order of the slide blocks of the input,
\* one per block, each with the layout of its type and with its own title.
C9_SlidesInSourceOrder ==
    (kind = "pptx" /\ pc = "built") =>
        /\ Len(ppt) = Len(SlideTypesIn(raw))
        /\ \A i \in 1..Len(ppt) :
              /\ ppt[i].layout = (IF SlideTypesIn(raw)[i] = "title_slide" THEN 0 ELSE 1)
              /\ ppt[i].title = <<SlideTitlesIn(raw)[i]>>

\* two content_slide blocks, then a title_slide block: three slides in that order
C9_Witness ==
    /\ kind = "pptx" /\ pc = "built"
    /\ raw = OverviewSlideXml \o StepsSlideXml \o TitleSlideXml
    /\ Len(ppt) = 3
    /\ ppt[1].layout = 1 /\ ppt[1].title = <<Word("Overview")>>
    /\ ppt[2].layout = 1 /\ ppt[2].title = <<Word("Steps")>>
    /\ ppt[3].layout = 0 /\ ppt[3].title = <<Word("Strategy")>>

\* C10: an artifact is uploaded only after it was built and saved completely:
\* when building or saving failed nothing is stored, and every stored object
\* is a complete artifact.
C10_UploadOnlyAfterRender ==
    /\ render # "ok" => s3 = {}
    /\ \A o \in s3 : o.content = "complete"
    /\ result = "url" => render = "ok"

\* a generator that returned after a failed build or save, with nothing stored
C10_Witness ==
    /\ pc = "done"
    /\ render = "failed"
    /\ result = "None"
    /\ s3 = {}

(***************************************************************************)
(* Properties of the requests                                              *)
(***************************************************************************)
Responded == opc = "responded"

\* C11: a response of the orchestrator that reports success carries the URL of
\* every requested artifact: a request whose artifact failed to render or to
\* upload is never answered with the success status.
C11_FailureNeverReportedAsSuccess ==
    (Responded /\ payload.entry = "orchestrator" /\ response.status = "completed") =>
        /\ payload.output_format \in {"pdf", "both"} => response.report_url = "url"
        /\ payload.output_format \in {"ppt", "both"} => response.presentation_url = "url"

\* the template identifiers an entry point knows, and its default
Catalogue(entry) ==
    CASE entry = "orchestrator" -> valid_styles
      [] entry = "standalone" -> TEMPLATE_REGISTRY
      [] entry = "template_config" -> TEMPLATE_CONFIGS
DefaultStyle(entry) == IF entry = "template_config" THEN "executive" ELSE "first_deck"

\* C12: in every entry point, a template identifier that is not in the catalogue
\* raises no error and is resolved to the default profile.
C12_UnknownTemplateFallsBack ==
    (Responded /\ payload.presentation_style \notin Catalogue(payload.entry)) =>
        /\ response.status # "ValueError"
        /\ presentation_style # "none" => presentation_style = DefaultStyle(payload.entry)

\* C13: a completed response of a presentation request whose style was replaced
\* by the default differs from the response that the same request gets when it
\* asks for the default style itself.
C13_FallbackDetectable ==
    (/\ Responded /\ payload.entry = "orchestrator" /\ response.status = "completed"
     /\ payload.output_format \in {"ppt", "both"}
     /\ payload.presentation_style \notin valid_styles) =>
        response # CompletedResponse(payload.output_format, "first_deck",
                                     report_url, presentation_url)

(***************************************************************************)
(* Properties of a repeated render                                         *)
(***************************************************************************)
\* the first call built its story or its slides, and so has the second
SecondRenderBuilt == renders = 2 /\ first.built /\ pc = "built"

\* C14: the second render of the same input produces what the first produced:
\* the same parsed model with the same citation numbers, the same story or the
\* same slides, with nothing of the first render left in them.
C14_SecondRenderEqualsFirst ==
    SecondRenderBuilt =>
        /\ kind = "pdf" => (parsed = first.parsed /\ story = first.story)
        /\ kind \in {"pptx", "deck"} => (structure = first.structure /\ ppt = first.ppt)

\* a report with a numbered citation was built twice
C14_Witness ==
    /\ SecondRenderBuilt
    /\ kind = "pdf"
    /\ Len(parsed.citations) >= 1
    /\ Len(first.story) > 0
    /\ story = first.story

(***************************************************************************)
(* Properties of the report generator's callers                            *)
(***************************************************************************)
\* a flowable of the story that comes from a section
IsSectionParagraph(fl) == fl.f = "Paragraph" /\ fl.style # "ReportTitle"

\* C15: a report whose scan extracted no section is not rendered and uploaded
\* as it is: what reaches the storage is a document with content, the canned
\* one when the scan was empty.
C15_EmptyModelNotUploaded ==
    (kind = "pdf" /\ s3 # {}) => \E i \in 1..Len(story) : IsSectionParagraph(story[i])

(***************************************************************************)
(* Properties of concurrent requests                                       *)
(***************************************************************************)
\* C16: whatever the interleaving, every slide a request has created carries
\* the colours and fonts of the style that request asked for, and the file of
\* its session holds its own slides.
C16_RequestsDoNotInterfere ==
    \A t \in DOMAIN threads :
        /\ \A i \in 1..Len(threads[t].slide_colors) :
              threads[t].slide_colors[i] = SchemeOf(threads[t].presentation_style)
        /\ files[t].state # "none" => files[t].colors = threads[t].slide_colors

(***************************************************************************)
(* Properties of the flowables                                             *)
(***************************************************************************)
\* the story up to the heading of the citation summary
SectionPart ==
    LET h == IndexOfFlowable(story, SourcesHeading, 1)
    IN  IF h = 0 THEN story ELSE SubSeq(story, 1, h - 1)

\* the paragraphs of the given styles that the sections put into the story
WithStyle(styles) ==
    SelectSeq(SectionPart, LAMBDA fl : fl.f = "Paragraph" /\ fl.style \in styles)

\* the matched blocks of the given types
OfType(types) == SelectSeq(all_sections, LAMBDA sec : sec.type \in types)

\* the number of bullet and number items written in the list blocks
RECURSIVE ListItemCount(_)
ListItemCount(lists) ==
    IF Len(lists) = 0 THEN 0
    ELSE Len(SelectSeq(lists[1].content,
                       LAMBDA t : t.k = "open" /\ t.v \in {"bullet", "number"}))
         + ListItemCount(Tail(lists))

\* C17: the story has one heading flowable per heading or sub-heading section,
\* one body flowable per content or paragraph section, and one bullet flowable
\* per item of every list section, bullet items and numbered items alike.
C17_FlowablesByKind ==
    PdfRendered =>
        /\ Len(WithStyle({"MainHeading", "SubHeadingBold", "SubHeading"}))
              = Len(OfType({"heading_bold", "sub-heading-bold", "sub-heading"}))
        /\ Len(WithStyle({"ContentText", "ParagraphText"}))
              = Len(OfType({"content", "paragraph", "section", "table"}))
        /\ Len(WithStyle({"BulletText"})) = ListItemCount(OfType({"list"}))

(***************************************************************************)
(* C18: the body of a use-case slide                                       *)
(***************************************************************************)
EndsWith(text, suffix) ==
    /\ Len(suffix) <= Len(text)
    /\ SubSeq(text, Len(text) - Len(suffix) + 1, Len(text)) = suffix

\* the items a body shows: its paragraphs without the empty lines and the
\* line that only announces the benefits
ShownItems(body) ==
    SelectSeq(body, LAMBDA line : line # <<>> /\ line # <<Word("Benefits:")>>)

\* content first, in source order, then the bullets, then the cut at the cap
ComposedFrom(body, content, bullets) ==
    LET expected == Take(content \o bullets, BulletCap)
    IN  /\ Len(ShownItems(body)) = Len(expected)
        /\ \A j \in 1..Len(expected) : EndsWith(ShownItems(body)[j], Strip(expected[j]))

UseCaseBodyOfGenerator ==
    (kind = "pptx" /\ pc = "built") =>
        \A i \in 1..Len(ppt) :
            structure.slides[i].type = "use_case_slide" =>
                ComposedFrom(ppt[i].body, structure.slides[i].content_blocks,
                             structure.slides[i].bullet_points)

UseCaseBodyOfTemplate ==
    (kind = "deck" /\ presentation_style = "use_case" /\ pc = "built") =>
        \A i \in 1..Len(ppt) :
            structure.slides[i].type \in DetailedTypes =>
                ComposedFrom(ppt[i].body,
                             <<structure.slides[i].problem, structure.slides[i].solution>>
                             \o structure.slides[i].benefits,
                             <<structure.slides[i].timeline>>)

\* C18: the body of a use-case slide is its content blocks (problem, solution,
\* benefits) in source order, then the timeline bullets, the whole cut at the
\* cap of five items, in PPTPresentationGenerator._create_use_case_slide and in
\* UseCaseTemplate._create_detailed_slide alike
C18_UseCaseBodyComposed == UseCaseBodyOfGenerator /\ UseCaseBodyOfTemplate

(***************************************************************************)
(* C19: speaker notes                                                      *)
(***************************************************************************)
\* the rendered slide of each parsed slide of the given types carries the
\* notes of the parsed slide: the same text, or none where it has none
NotesAttached(types) ==
    (kind = "pptx" /\ pc = "built") =>
        \A i \in 1..Len(ppt) :
            structure.slides[i].type \in types => ppt[i].notes = structure.slides[i].notes

NotesOfContentSlides == NotesAttached({"content_slide", "agenda_slide"})
NotesOfUseCaseSlides == NotesAttached({"use_case_slide"})

\* C19: for every slide type (title, content, use case) a parsed slide with
\* non-empty speaker notes is rendered with those notes attached, and one
\* without notes is rendered without
C19_NotesAttached == NotesAttached({"title_slide", "content_slide", "use_case_slide"})

(***************************************************************************)
(* C20: a citation_name tag without an adjacent citation_url               *)
(***************************************************************************)
RECURSIVE CountToken(_, _)
CountToken(s, t) ==
    IF Len(s) = 0 THEN 0
    ELSE (IF s[1] = t THEN 1 ELSE 0) + CountToken(Tail(s), t)

RECURSIVE CountInSections(_, _)
CountInSections(sections, t) ==
    IF Len(sections) = 0 THEN 0
    ELSE CountToken(sections[1].content, t) + CountInSections(Tail(sections), t)

\* a registered name holds the text of one citation_name tag only
NameOfOneTag(name) == \A i \in 1..Len(name) : name[i] \notin {CNO, CNC}

StrayRegistersNothing ==
    (kind = "scan" /\ pc = "scanned") =>
        \A i \in 1..Len(parsed.inline_citations) :
            /\ NameOfOneTag(parsed.inline_citations[i].full_name)
            /\ NameOfOneTag(parsed.inline_citations[i].name)

StrayTextKept ==
    (kind = "scan" /\ pc = "scanned") =>
        \A w \in {Word("Stray"), Word("mid")} :
            CountInSections(parsed.sections, w) = CountToken(raw, w)

\* C20: only a citation_name tag whose close tag is directly followed by a
\* citation_url tag is a citation; a citation_name tag without one registers
\* nothing, and neither its text nor the text between it and a later valid
\* pair ends up in a registered name or disappears from the section text
C20_StrayNameIsNoCitation == StrayRegistersNothing /\ StrayTextKept

(***************************************************************************)
(* C21: the markers of the text and the table of citations                 *)
(***************************************************************************)
RECURSIVE SectionsText(_)
SectionsText(sections) ==
    IF Len(sections) = 0 THEN <<>>
    ELSE sections[1].content \o SectionsText(Tail(sections))

\* the markers [n] of a text
Markers(text) == SelectSeq(text, LAMBDA t : t.k = "link")

\* every number of the table has exactly one marker, linked to its URL
EveryCitationMarkedOnce ==
    (kind = "scan" /\ pc = "scanned") =>
        \A i \in 1..Len(parsed.citations) :
            LET n == parsed.citations[i].key
                marks == SelectSeq(Markers(SectionsText(parsed.sections)), LAMBDA t : t.n = n)
            IN  /\ Len(marks) = 1
                /\ marks[1].u = parsed.citations[i].value.url

\* every marker carries a number of the table
EveryMarkerRegistered ==
    (kind = "scan" /\ pc = "scanned") =>
        \A j \in 1..Len(Markers(SectionsText(parsed.sections))) :
            \E i \in 1..Len(parsed.citations) :
                parsed.citations[i].key = Markers(SectionsText(parsed.sections))[j].n

\* C21: after the scan the inline markers and the citation table agree: each
\* number n of the table has exactly one marker [n] in the sections' text,
\* linked to the URL stored for n, and each marker's number is a key of the
\* table, also when a section repeats one name/URL pair
C21_MarkersAgreeWithTable == EveryCitationMarkedOnce /\ EveryMarkerRegistered

(***************************************************************************)
(* C22: the extents of the matched blocks                                  *)
(***************************************************************************)
\* the last position of the raw text that belongs to a matched block: its
\* open tag is at start_pos, its close tag follows its content
EndPos(sec) == sec.start_pos + Len(sec.content) + 1

SectionsDisjoint ==
    (kind = "scan" /\ pc = "scanned") =>
        \A i, j \in 1..Len(all_sections) :
            i < j => EndPos(all_sections[i]) < all_sections[j].start_pos

\* parsed.log holds the position in the raw text of every registered pair
PairsRegisteredOnce ==
    (kind = "scan" /\ pc = "scanned") =>
        \A i, j \in 1..Len(parsed.log) : i # j => parsed.log[i].at # parsed.log[j].at

\* C22: the blocks that become sections never overlap in the source text: no
\* position of the raw input belongs to two sections, a block written inside
\* a block of another type gives no second section over the same text, and no
\* citation pair is registered more than once
C22_SectionsNeverOverlap == SectionsDisjoint /\ PairsRegisteredOnce

(***************************************************************************)
(* C27: the temporary file after the generator returned                    *)
(***************************************************************************)
\* the generator returned, with a URL or with None
Returned == pc = "done" /\ result \in {"url", "None"}

TempFileGoneAfterUpload == (Returned /\ result = "url") => tmp_file = "none"

TempFileGoneAfterFailedUpload ==
    (Returned /\ result = "None" /\ render = "ok") => tmp_file = "none"

\* C27: once a generator has returned, with a URL or with None, the temporary
\* file it wrote no longer exists, whether the upload succeeded or failed
C27_TempFileRemoved == Returned => tmp_file = "none"

(***************************************************************************)
(* A start request with status tracking: process_request, _handle_start,   *)
(* StatusTracker and the status poll of lambda_handler                     *)
(***************************************************************************)
\* StatusCheckpoints.get_progress_percentage
get_progress_percentage(status) ==
    CASE status = "initiated" -> 5
      [] status = "custom_prompt_processing" -> 10
      [] status = "file_parsing_started" -> 12
      [] status = "file_parsing_completed" -> 15
      [] status = "research_started" -> 20
      [] status = "web_scraping_started" -> 25
      [] status = "web_scraping_completed" -> 30
      [] status = "research_in_progress" -> 35
      [] status = "research_completed" -> 40
      [] status = "agent_analyzing" -> 45
      [] status = "use_case_generation_started" -> 50
      [] status = "use_case_generation_in_progress" -> 55
      [] status = "use_cases_generated" -> 60
      [] status = "report_generation_started" -> 65
      [] status = "report_generation_in_progress" -> 70
      [] status = "report_generation_completed" -> 80
      [] status = "template_selected" -> 62
      [] status = "presentation_generating" -> 65
      [] status = "presentation_analyzing" -> 70
      [] status = "presentation_structuring" -> 75
      [] status = "presentation_creating" -> 80
      [] status = "presentation_styling" -> 85
      [] status = "presentation_saving" -> 90
      [] status = "presentation_uploading" -> 92
      [] status = "presentation_completed" -> 95
      [] status = "completed" -> 100
      [] status = "error" -> 0
      [] OTHER -> 50

\* lambda_handler: 'polling_recommended': current_status not in [...]
polling_recommended(current_status) ==
    current_status \notin {"completed", "error", "use_cases_generated",
                           "report_generation_completed", "presentation_completed"}

\* "except Exception as e: logger.error(...)" of update_status: a failed
\* put_item is logged and nothing reaches the caller
UpdateStatusRaisesOnFailure(stored) == ~stored

UpdateStatusRaises(stored) == FALSE

\* the start requests: with and without a company name, a prompt and files,
\* with web scraping available or not
StartRequests ==
    {[company_name |-> n, output_format |-> f, prompt |-> x, files |-> x, web_scraping |-> x] :
        n \in {<<Word("Acme")>>, <<>>, <<Ws>>}, f \in RequestFormats, x \in BOOLEAN}

InitStatus ==
    /\ pc = "idle"
    /\ kind = "none"
    /\ raw = <<>>
    /\ parsed = NoParse
    /\ all_sections = <<>>
    /\ story = <<>>
    /\ structure = NoStructure
    /\ ppt = <<>>
    /\ tmp_file = "none"
    /\ s3 = {}
    /\ render = "pending"
    /\ result = "none"
    /\ NoRequest
    /\ FirstRender
    /\ NoThreads
    /\ start_request \in StartRequests
    /\ spc = "received"
    /\ todo = <<>>
    /\ status_log = <<>>
    /\ status_item = "not_found"
    /\ store_up = TRUE
    /\ outcome = NoOutcome
    /\ raised = FALSE
    /\ returned = NoReturn
    /\ polled = NoPoll

\* the generators, the orchestrator's request and the renderer are not involved
StatusFrame ==
    UNCHANGED <<pc, kind, raw, parsed, all_sections, story, structure, ppt, tmp_file, s3,
                render, result, request_vars, rerender_vars, thread_vars>>

\* a validation that takes the company name as it came
RequestRejectedUnstripped(request) ==
    \/ Len(request.company_name) = 0
    \/ request.output_format \notin valid_formats

\* process_request: "company_name = payload.get('company_name', '').strip()",
\* "if not company_name: return", "if output_format not in valid_formats: return"
RequestRejected(request) ==
    \/ Len(Strip(request.company_name)) = 0
    \/ request.output_format \notin valid_formats

\* process_request up to the dispatch on the action: the validation of
\* company_name and output_format, then StatusTracker(session_id) and the
\* checkpoint of the custom prompt
ProcessStartRequest ==
    /\ StatusFrame
    /\ spc = "received"
    /\ IF RequestRejected(start_request)
       THEN /\ returned' = [NoReturn EXCEPT !.status = "error"]
            /\ spc' = "returned"
            /\ todo' = todo
       ELSE /\ todo' = IF start_request.prompt THEN <<"custom_prompt_processing">> ELSE <<>>
            /\ spc' = "files"
            /\ returned' = returned
    /\ UNCHANGED <<start_request, status_log, status_item, store_up, outcome, raised, polled>>

\* StatusTracker.update_status(checkpoint): put_item replaces the item of
\* the session, or fails
UpdateStatus ==
    /\ StatusFrame
    /\ Len(todo) > 0
    /\ status_log' = Append(status_log, [checkpoint |-> todo[1], stored |-> store_up])
    /\ status_item' = IF store_up THEN todo[1] ELSE status_item
    /\ raised' = (raised \/ UpdateStatusRaises(store_up))
    /\ todo' = Tail(todo)
    /\ UNCHANGED <<start_request, spc, store_up, outcome, returned, polled>>

\* the status table stops accepting writes
StoreOutage ==
    /\ StatusFrame
    /\ store_up /\ spc \notin {"received", "returned"}
    /\ store_up' = FALSE
    /\ UNCHANGED <<start_request, spc, todo, status_log, status_item, outcome, raised,
                   returned, polled>>

\* _parse_uploaded_files
ParseUploadedFiles ==
    /\ StatusFrame
    /\ spc = "files" /\ todo = <<>>
    /\ IF start_request.files
       THEN /\ todo' = <<"file_parsing_started", "file_parsing_completed">>
            /\ outcome' = [outcome EXCEPT !.files = "ok"]
       ELSE /\ todo' = <<>>
            /\ outcome' = [outcome EXCEPT !.files = "skipped"]
    /\ spc' = "research"
    /\ UNCHANGED <<start_request, status_log, status_item, store_up, raised, returned, polled>>

\* ResearchSwarm.conduct_comprehensive_research: the analysis ends or raises,
\* and the handler then reports ERROR and returns the fallback research
ConductResearch ==
    /\ StatusFrame
    /\ spc = "research" /\ todo = <<>>
    /\ \E o \in {"ok", "raise"} :
          /\ outcome' = [outcome EXCEPT !.research = o]
          /\ todo' = <<"research_started">>
                \o (IF start_request.web_scraping
                    THEN <<"web_scraping_started", "web_scraping_completed">> ELSE <<>>)
                \o <<"research_in_progress">>
                \o (IF o = "ok" THEN <<"research_completed">> ELSE <<"error">>)
    /\ spc' = "profile"
    /\ UNCHANGED <<start_request, status_log, status_item, store_up, raised, returned, polled>>

\* _handle_start: the AGENT_ANALYZING checkpoint and _extract_company_profile,
\* whose exception is not handled in _handle_start
ExtractCompanyProfile ==
    /\ StatusFrame
    /\ spc = "profile" /\ todo = <<>>
    /\ todo' = <<"agent_analyzing">>
    /\ \E o \in {"ok", "raise"} :
          /\ outcome' = [outcome EXCEPT !.profile = o]
          /\ spc' = IF o = "ok" THEN "use_cases" ELSE "failed"
    /\ UNCHANGED <<start_request, status_log, status_item, store_up, raised, returned, polled>>

\* process_request: "except Exception as e" returns the error result
HandlerError ==
    /\ StatusFrame
    /\ spc = "failed" /\ todo = <<>>
    /\ returned' = [NoReturn EXCEPT !.status = "error"]
    /\ spc' = "returned"
    /\ UNCHANGED <<start_request, todo, status_log, status_item, store_up, outcome, raised, polled>>

\* DynamicUseCaseGenerator.generate_dynamic_use_cases: the use cases, or
\* ERROR and the fallback use cases
GenerateUseCases ==
    /\ StatusFrame
    /\ spc = "use_cases" /\ todo = <<>>
    /\ \E o \in {"ok", "raise"} :
          /\ outcome' = [outcome EXCEPT !.use_cases = o]
          /\ todo' = <<"use_case_generation_started">>
                \o (IF o = "ok" THEN <<"use_cases_generated">> ELSE <<"error">>)
    /\ spc' = "report"
    /\ UNCHANGED <<start_request, status_log, status_item, store_up, raised, returned, polled>>

\* _handle_start "if output_format in ['pdf', 'both']" and
\* generate_consolidated_report up to its return: the PDF generator returns a
\* URL or None, or the report agent raises
GenerateReport ==
    /\ StatusFrame
    /\ spc = "report" /\ todo = <<>>
    /\ IF start_request.output_format \in {"pdf", "both"}
       THEN \E o \in {"url", "None", "raise"} :
               /\ outcome' = [outcome EXCEPT !.report = o]
               /\ todo' = <<"report_generation_started", "report_generation_started">>
                     \o (IF o = "raise" THEN <<"error">> ELSE <<"report_generation_completed">>)
               /\ spc' = "report_return"
       ELSE /\ outcome' = [outcome EXCEPT !.report = "skipped"]
            /\ todo' = <<>>
            /\ spc' = "presentation"
    /\ UNCHANGED <<start_request, status_log, status_item, store_up, raised, returned, polled>>

\* "return pdf_url" / "return None" of generate_consolidated_report
ReportReturns ==
    /\ StatusFrame
    /\ spc = "report_return" /\ todo = <<>>
    /\ returned' = [returned EXCEPT !.report_url =
                        IF outcome.report = "url" /\ ~raised THEN "url" ELSE "None"]
    /\ raised' = FALSE
    /\ spc' = "presentation"
    /\ UNCHANGED <<start_request, todo, status_log, status_item, store_up, outcome, polled>>

\* _handle_start "if output_format in ['ppt', 'both']" and generate_presentation
\* up to its return: python-pptx is not available, the analysis, create_slides
\* or the save raises, or the upload returns a URL or None
GeneratePresentation ==
    /\ StatusFrame
    /\ spc = "presentation" /\ todo = <<>>
    /\ IF start_request.output_format \in {"ppt", "both"}
       THEN \E o \in {"url", "None", "unavailable", "raise_analyze", "raise_save"} :
               /\ outcome' = [outcome EXCEPT !.presentation = o]
               /\ todo' = <<"template_selected">>
                     \o (IF o = "unavailable" THEN <<>>
                         ELSE <<"presentation_generating", "presentation_analyzing">>
                              \o (IF o = "raise_analyze" THEN <<"error">>
                                  ELSE <<"presentation_creating", "presentation_saving">>
                                       \o (IF o = "raise_save" THEN <<"error">>
                                           ELSE <<"presentation_uploading",
                                                  "presentation_completed">>)))
               /\ spc' = "presentation_return"
       ELSE /\ outcome' = [outcome EXCEPT !.presentation = "skipped"]
            /\ todo' = <<>>
            /\ spc' = "final"
    /\ UNCHANGED <<start_request, status_log, status_item, store_up, raised, returned, polled>>

\* "return s3_url" / "return None" of generate_presentation
PresentationReturns ==
    /\ StatusFrame
    /\ spc = "presentation_return" /\ todo = <<>>
    /\ returned' = [returned EXCEPT !.presentation_url =
                        IF outcome.presentation = "url" /\ ~raised THEN "url" ELSE "None"]
    /\ raised' = FALSE
    /\ spc' = "final"
    /\ UNCHANGED <<start_request, todo, status_log, status_item, store_up, outcome, polled>>

\* _handle_start: "Final status update"
FinalStatusUpdate ==
    /\ StatusFrame
    /\ spc = "final" /\ todo = <<>>
    /\ todo' = <<"completed">>
    /\ spc' = "respond"
    /\ UNCHANGED <<start_request, status_log, status_item, store_up, outcome, raised,
                   returned, polled>>

\* _handle_start: "Prepare response" and return
ReturnResponse ==
    /\ StatusFrame
    /\ spc = "respond" /\ todo = <<>>
    /\ returned' = [returned EXCEPT !.status = IF raised THEN "error" ELSE "completed"]
    /\ spc' = "returned"
    /\ UNCHANGED <<start_request, todo, status_log, status_item, store_up, outcome, raised, polled>>

\* lambda_handler, action 'fetch' with fetch_type 'status': another invocation
\* reads the item of the session while the start request runs
PollStatus ==
    /\ StatusFrame
    /\ spc # "received"
    /\ polled' = [current_status |-> status_item,
                  polling_recommended |-> polling_recommended(status_item),
                  updates |-> Len(status_log)]
    /\ UNCHANGED <<start_request, spc, todo, status_log, status_item, store_up, outcome,
                   raised, returned>>

NextStatus ==
    \/ ProcessStartRequest
    \/ UpdateStatus
    \/ StoreOutage
    \/ ParseUploadedFiles
    \/ ConductResearch
    \/ ExtractCompanyProfile
    \/ HandlerError
    \/ GenerateUseCases
    \/ GenerateReport
    \/ ReportReturns
    \/ GeneratePresentation
    \/ PresentationReturns
    \/ FinalStatusUpdate
    \/ ReturnResponse
    \/ PollStatus

SpecStatus == InitStatus /\ [][NextStatus]_vars

(***************************************************************************)
(* C23: an ERROR checkpoint and the final status                           *)
(***************************************************************************)
\* the checkpoint was stored for the session by the request
Stored(checkpoint) ==
    \E i \in 1..Len(status_log) :
        status_log[i].checkpoint = checkpoint /\ status_log[i].stored

ErrorNotReplacedByCompleted == Stored("error") => status_item # "completed"

ErrorIsLastStatus == (Stored("error") /\ spc = "returned") => status_item = "error"

\* C23: within one start request, once an ERROR checkpoint has been stored for
\* the session no later status update replaces it with COMPLETED, and when the
\* request has returned the stored status is ERROR
C23_ErrorIsFinal == ErrorNotReplacedByCompleted /\ ErrorIsLastStatus

(***************************************************************************)
(* C24: the checkpoints of completion                                      *)
(***************************************************************************)
ReportCompletedOnlyWithUrl ==
    Stored("report_generation_completed") => outcome.report = "url"

PresentationCompletedOnlyWithUrl ==
    Stored("presentation_completed") => outcome.presentation = "url"

\* C24: REPORT_GENERATION_COMPLETED, respectively PRESENTATION_COMPLETED, is
\* written for a session only when the artifact was built and uploaded, that
\* is only when the generator returns a URL
C24_CompletedOnlyWithArtifact ==
    ReportCompletedOnlyWithUrl /\ PresentationCompletedOnlyWithUrl

(***************************************************************************)
(* C25: the progress along the status updates                              *)
(***************************************************************************)
NoStageFailed ==
    \A stage \in DOMAIN outcome : outcome[stage] \in {"pending", "skipped", "ok", "url"}

\* the progress_percentage of the items stored for the session, in order
StoredProgress ==
    LET stored == SelectSeq(status_log, LAMBDA e : e.stored)
    IN  [i \in 1..Len(stored) |-> get_progress_percentage(stored[i].checkpoint)]

ProgressNeverDecreases(formats) ==
    (NoStageFailed /\ start_request.output_format \in formats) =>
        \A i \in 1..(Len(StoredProgress) - 1) : StoredProgress[i] <= StoredProgress[i + 1]

ProgressOfOneArtifact == ProgressNeverDecreases({"pdf", "ppt"})

\* C25: along the status updates written for one session by a start request
\* in which no stage fails, the stored progress_percentage never decreases,
\* for each output_format of pdf, ppt and both
C25_ProgressNeverDecreases == ProgressNeverDecreases({"pdf", "ppt", "both"})

(***************************************************************************)
(* C26: the status poll                                                    *)
(***************************************************************************)
\* the request wrote a status after the last poll
UpdatedSincePoll == Len(status_log) > polled.updates

\* the same, in the requests in which no stage fails
NoUpdateAfterFinalPollWithoutFailure ==
    (NoStageFailed /\ polled.current_status # "none" /\ ~polled.polling_recommended)
        => ~UpdatedSincePoll

\* C26: when a status poll answers polling_recommended = false for a session,
\* the request processed for that session is in its final state: it writes no
\* further status update for the session after the polled one
C26_NoUpdateAfterFinalPoll ==
    (polled.current_status # "none" /\ ~polled.polling_recommended) => ~UpdatedSincePoll

(***************************************************************************)
(* C28: a request without company name or with an unknown output_format    *)
(***************************************************************************)
\* the company name is empty or blank, or the format is none of pdf, ppt, both
InvalidStartRequest ==
    \/ \A i \in 1..Len(start_request.company_name) : start_request.company_name[i] = Ws
    \/ start_request.output_format \notin {"pdf", "ppt", "both"}

\* C28: process_request called with an empty company_name or with an
\* output_format outside pdf, ppt, both returns a result of status 'error'
\* and changes nothing: no status update is written and no research, use-case
\* generation, rendering or upload is started
C28_InvalidRequestChangesNothing ==
    (InvalidStartRequest /\ spc # "received") =>
        /\ spc = "returned"
        /\ returned = [NoReturn EXCEPT !.status = "error"]
        /\ status_log = <<>> /\ todo = <<>>
        /\ status_item = "not_found"
        /\ outcome = NoOutcome
        /\ s3 = {} /\ tmp_file = "none"

\* a request whose company name is blank was answered with an error
C28_Witness ==
    /\ start_request.company_name = <<Ws>>
    /\ start_request.output_format = "both"
    /\ spc = "returned"
    /\ returned.status = "error"
    /\ status_log = <<>>

(***************************************************************************)
(* C29: a failure of the status store                                      *)
(***************************************************************************)
\* some call of update_status of the request could not store its item
StoreFailed == \E i \in 1..Len(status_log) : ~status_log[i].stored

\* what the generators return follows from how their own work ended
ResultsFollowOutcomes ==
    /\ (/\ spc \in {"presentation", "presentation_return", "final", "respond", "returned"}
        /\ outcome.report \in {"url", "None", "raise"})
         => returned.report_url = (IF outcome.report = "url" THEN "url" ELSE "None")
    /\ (/\ spc \in {"final", "respond", "returned"}
        /\ outcome.presentation \in {"url", "None", "unavailable", "raise_analyze", "raise_save"})
         => returned.presentation_url =
                (IF outcome.presentation = "url" THEN "url" ELSE "None")
    /\ (spc = "returned" /\ outcome.profile = "ok") => returned.status = "completed"

\* a step goes on after each of its checkpoints: when the request has
\* returned, every step that ended well has reported its last checkpoint
StepsReportedToTheEnd ==
    spc = "returned" =>
        LET reported == {status_log[i].checkpoint : i \in 1..Len(status_log)}
        IN  /\ outcome.research = "ok" => "research_completed" \in reported
            /\ outcome.use_cases = "ok" => "use_cases_generated" \in reported
            /\ outcome.presentation = "url" => "presentation_completed" \in reported
            /\ outcome.profile = "ok" => "completed" \in reported

DefaultTitle == <<Word("GenAI Transformation Strategy for"), Word("company_name")>>

\* the story of a report whose markup holds no <heading_bold> block was built
RenderedWithoutHeading ==
    /\ kind = "pdf" /\ Len(story) > 0
    /\ Len(FindBlocks(raw, "heading_bold", 1)) = 0

\* the title flowable of such a document is never empty
TitleNeverEmpty == RenderedWithoutHeading => Len(story[1].text) > 0

\* C30: when the markup contains no heading_bold block, the first flowable of
\* the rendered document, its title, is the default "GenAI Transformation
\* Strategy for <company name>", never an empty title
C30_DefaultTitleWithoutHeading ==
    RenderedWithoutHeading =>
        /\ story[1].style = "ReportTitle"
        /\ story[1].text = DefaultTitle

====
